---- MODULE Spec2Model ----
(***************************************************************************)
(* Model of backend/python/excel_generator.py (FAASExcelGenerator and its  *)
(* command line entry point) and of backend/python/pdf_converter.py.       *)
(*                                                                         *)
(* Representation.                                                         *)
(*   - A Python string is a sequence of one-character strings, so that     *)
(*     upper(), strip(), split() and float() are modelled by what they do. *)
(*   - A Python value (None, a number, a string) and the content of a      *)
(*     sheet cell is a record [t, n, d, s]: t is the kind, n/d the number  *)
(*     as a fraction in lowest terms, s the characters of a string.  int   *)
(*     and float are not told apart: 2800 and 2800.0 are the same number.  *)
(*   - Floating point products are modelled by exact fractions; the input  *)
(*     sets below are chosen so that the two agree.                        *)
(***************************************************************************)
EXTENDS Integers, Sequences, FiniteSets, TLC

VARIABLES call, ws, last, rec, setup, mode, step, faas, unirrig, out

vars == <<call, ws, last, rec, setup, mode, step, faas, unirrig, out>>

(***************************************************************************)
(* Python values                                                           *)
(***************************************************************************)
RECURSIVE GCD(_, _)
GCD(a, b) == IF b = 0 THEN a ELSE GCD(b, a % b)

Abs(n) == IF n < 0 THEN -n ELSE n

NoneV == [t |-> "none", n |-> 0, d |-> 1, s |-> <<>>]

\* the fraction n/d (d # 0) in lowest terms with a positive denominator
Rat(n, d) ==
    LET g  == GCD(Abs(n), Abs(d))
        sg == IF d < 0 THEN -1 ELSE 1
    IN  [t |-> "num", n |-> (sg * n) \div g, d |-> Abs(d) \div g, s |-> <<>>]

Num(n) == [t |-> "num", n |-> n, d |-> 1, s |-> <<>>]

Str(chars) == [t |-> "str", n |-> 0, d |-> 1, s |-> chars]

EmptyStr == Str(<<>>)

IsNone(v) == v.t = "none"
IsNum(v) == v.t = "num"
IsStr(v) == v.t = "str"

\* bool(v): None, 0 and '' are false
Truthy(v) ==
    CASE v.t = "none" -> FALSE
      [] v.t = "num"  -> v.n # 0
      [] v.t = "str"  -> v.s # <<>>
      [] OTHER        -> TRUE

RatMul(a, b) == Rat(a.n * b.n, a.d * b.d)
RatDiv(a, b) == Rat(a.n * b.d, a.d * b.n)
RatAdd(a, b) == Rat(a.n * b.d + b.n * a.d, a.d * b.d)
RatGt0(a) == a.n > 0

\* (variant) a tie goes up
RoundHalfUp(n, d) == (2 * n + d) \div (2 * d)

\* round(): the integer nearest to n/d (d > 0), a tie going to the even one
RoundHalfEven(n, d) ==
    LET q == n \div d
        r == n % d
    IN  IF 2 * r < d THEN q
        ELSE IF 2 * r > d THEN q + 1
        ELSE IF q % 2 = 0 THEN q ELSE q + 1

\* int(): truncation toward zero of n/d (d > 0)
Trunc(n, d) == IF n >= 0 THEN n \div d ELSE -((-n) \div d)

(***************************************************************************)
(* Python strings                                                          *)
(***************************************************************************)
LowerCase == <<"a","b","c","d","e","f","g","h","i","j","k","l","m",
               "n","o","p","q","r","s","t","u","v","w","x","y","z">>
UpperCase == <<"A","B","C","D","E","F","G","H","I","J","K","L","M",
               "N","O","P","Q","R","S","T","U","V","W","X","Y","Z">>
Whitespace == {" ", "\t", "\n"}
Digits == <<"0","1","2","3","4","5","6","7","8","9">>

LowerSet == {LowerCase[i] : i \in 1..Len(LowerCase)}
UpperSet == {UpperCase[i] : i \in 1..Len(UpperCase)}
DigitSet == {Digits[i] : i \in 1..Len(Digits)}

\* the position of a character in its alphabet
LowerIndex == [c \in LowerSet |-> CHOOSE i \in 1..Len(LowerCase) : LowerCase[i] = c]
UpperIndex == [c \in UpperSet |-> CHOOSE i \in 1..Len(UpperCase) : UpperCase[i] = c]
DigitIndex == [c \in DigitSet |-> CHOOSE i \in 1..Len(Digits) : Digits[i] = c]

UpperChar(c) == IF c \in LowerSet THEN UpperCase[LowerIndex[c]] ELSE c

LowerChar(c) == IF c \in UpperSet THEN LowerCase[UpperIndex[c]] ELSE c

\* str.upper() and str.lower()
Upper(s) == [k \in 1..Len(s) |-> UpperChar(s[k])]
Lower(s) == [k \in 1..Len(s) |-> LowerChar(s[k])]

RECURSIVE LStrip(_)
LStrip(s) == IF s # <<>> /\ Head(s) \in Whitespace THEN LStrip(Tail(s)) ELSE s

RECURSIVE RStrip(_)
RStrip(s) ==
    IF s # <<>> /\ s[Len(s)] \in Whitespace
    THEN RStrip(SubSeq(s, 1, Len(s) - 1)) ELSE s

\* str.strip()
Strip(s) == RStrip(LStrip(s))

\* the characters as one TLA+ string, to compare with the keys of the tables
RECURSIVE Join(_)
Join(s) == IF s = <<>> THEN "" ELSE Head(s) \o Join(Tail(s))

\* str.replace(c, '') for a single character c
Remove(s, c) == SelectSeq(s, LAMBDA x : x # c)

\* str.split(sep) for a single character sep: the list of the pieces
RECURSIVE Split(_, _)
Split(s, sep) ==
    IF \E i \in 1..Len(s) : s[i] = sep
    THEN LET k == CHOOSE i \in 1..Len(s) :
                      s[i] = sep /\ \A j \in 1..(i - 1) : s[j] # sep
         IN  <<SubSeq(s, 1, k - 1)>> \o Split(SubSeq(s, k + 1, Len(s)), sep)
    ELSE <<s>>

IsDigit(c) == c \in DigitSet
DigitVal(c) == DigitIndex[c] - 1

RECURSIVE DigitsVal(_)
DigitsVal(s) ==
    IF s = <<>> THEN 0
    ELSE 10 * DigitsVal(SubSeq(s, 1, Len(s) - 1)) + DigitVal(s[Len(s)])

RECURSIVE Pow10(_)
Pow10(k) == IF k = 0 THEN 1 ELSE 10 * Pow10(k - 1)

ValueError == [t |-> "error", n |-> 0, d |-> 1, s |-> <<>>]

\* the number ip.fp, negated when neg; ValueError unless both are digits
FloatOfDigits(neg, ip, fp) ==
    IF /\ Len(ip) + Len(fp) > 0
       /\ \A i \in 1..Len(ip) : IsDigit(ip[i])
       /\ \A i \in 1..Len(fp) : IsDigit(fp[i])
    THEN Rat((IF neg THEN -1 ELSE 1) * (DigitsVal(ip) * Pow10(Len(fp)) + DigitsVal(fp)),
             Pow10(Len(fp)))
    ELSE ValueError

\* ps: the text split at its points
FloatOfPieces(neg, ps) ==
    IF Len(ps) > 2 THEN ValueError
    ELSE FloatOfDigits(neg, ps[1], IF Len(ps) > 1 THEN ps[2] ELSE <<>>)

FloatOfSigned(b) ==
    IF b # <<>> /\ Head(b) \in {"-", "+"}
    THEN FloatOfPieces(Head(b) = "-", Split(Tail(b), "."))
    ELSE FloatOfPieces(FALSE, Split(b, "."))

\* float(s) for a string of optional blanks, an optional sign, digits and at
\* most one point; any other text raises ValueError
ParseFloat(s) == FloatOfSigned(Strip(s))

\* float(value) for a number or a string
ToFloat(value) == IF IsStr(value) THEN ParseFloat(value.s) ELSE value

\* try: return float(...) / except (ValueError, TypeError): return default
FloatOrDefault(f, default) == IF f = ValueError THEN default ELSE f

safe_float(value, default) ==
    IF IsNone(value) \/ value = EmptyStr THEN default
    ELSE FloatOrDefault(ToFloat(IF IsStr(value) THEN Str(Remove(value.s, ","))
                                ELSE value),
                        default)

\* try: return int(float(value)) / except (ValueError, TypeError): return default
IntOrDefault(f, default) == IF f = ValueError THEN default ELSE Num(Trunc(f.n, f.d))

safe_int(value, default) ==
    IF IsNone(value) \/ value = EmptyStr THEN default
    ELSE IntOrDefault(ToFloat(value), default)

(***************************************************************************)
(* ValueLookup and Rounding                                                *)
(***************************************************************************)
\* (variant) a missing key yields zero
TableGetZero(table, key) ==
    IF \E e \in table : e[1] = key
    THEN Num((CHOOSE e \in table : e[1] = key)[2])
    ELSE Num(0)

\* dict.get(key) on a table given as a set of <<key, price>> pairs
TableGet(table, key) ==
    IF \E e \in table : e[1] = key
    THEN Num((CHOOSE e \in table : e[1] = key)[2])
    ELSE NoneV

\* the nested LAND_UNIT_VALUES lookup on the normalised keys
LandUnitValues(cls, sub) ==
    CASE cls = "COMMERCIAL" ->
           TableGet({<<"C-1", 1400>>, <<"C-2", 1030>>, <<"C-3", 850>>,
                     <<"C-4", 720>>}, sub)
      [] cls = "RESIDENTIAL" ->
           TableGet({<<"R-1", 760>>, <<"R-2", 610>>, <<"R-3", 470>>,
                     <<"R-4", 280>>, <<"R-5", 200>>}, sub)
      [] cls = "COCAL" ->
           TableGet({<<"1", 93830>>, <<"2", 84500>>, <<"3", 76130>>}, sub)
      [] cls = "IRRIGATED" ->
           TableGet({<<"1", 188760>>, <<"2", 174390>>, <<"3", 126950>>}, sub)
      [] cls = "UNIRRIGATED" ->
           TableGet({<<"1", 82450>>, <<"2", 75070>>, <<"3", 52590>>}, sub)
      [] cls = "UPLAND" -> Num(28540)
      [] cls = "ORCHARD" -> Num(44100)
      [] cls = "COGON LAND" -> Num(46460)
      [] cls = "NIPA LAND" -> Num(55070)
      [] cls = "FOREST LAND" -> Num(59660)
      [] cls = "FISHPOND" -> Num(218240)
      [] OTHER -> NoneV

calculate_land_unit_value(classification, sub_class) ==
    IF ~Truthy(classification) THEN NoneV
    ELSE LandUnitValues(Join(Strip(Upper(classification.s))),
                        IF Truthy(sub_class) THEN Join(Strip(Upper(sub_class.s)))
                        ELSE "")

\* round(q) * multiple
RoundTimes(q, multiple) == RatMul(Num(RoundHalfEven(q.n, q.d)), multiple)

mround(number, multiple) ==
    IF ~Truthy(number) \/ ~Truthy(multiple) THEN Num(0)
    ELSE RoundTimes(RatDiv(number, multiple), multiple)

ImprovementTable ==
    {<<"COCO BRG.-1", 480>>, <<"COCO BRG.-2", 420>>, <<"COCO BRG.-3", 330>>,
     <<"AVOCADO", 310>>, <<"BANANA", 200>>, <<"CACAO", 300>>,
     <<"CALAMANSI", 360>>, <<"CAMANSI", 420>>, <<"CHICO", 630>>,
     <<"COFFEE", 250>>, <<"JACKFRUIT", 840>>, <<"LANZONES", 460>>,
     <<"MABOLO", 350>>, <<"MANGO", 1750>>, <<"ORANGE", 460>>,
     <<"RAMBUTAN", 360>>, <<"SANTOL", 620>>, <<"SINEGUELAS", 310>>,
     <<"STAR APPLE", 790>>, <<"TAMARIND", 350>>, <<"BAMBOO", 460>>,
     <<"BURI", 410>>, <<"NIPA", 240>>}

calculate_improvement_unit_value(product_class) ==
    IF ~Truthy(product_class) THEN NoneV
    ELSE TableGet(ImprovementTable, Join(Strip(Upper(product_class.s))))

(***************************************************************************)
(* Worksheets and CellWriter                                               *)
(*                                                                         *)
(* A worksheet is [cells, merged]: cells maps <<row, column>> to the       *)
(* stored value (None for an empty cell), merged is the set of merged      *)
(* ranges [min_row, max_row, min_col, max_col].  A cell address is the     *)
(* string the code builds, e.g. f'G{row}'.                                 *)
(***************************************************************************)
\* a formula or label the template already holds; no mapper produces it
Formula == [t |-> "formula", n |-> 0, d |-> 1, s |-> <<"=">>]

IsLetter(c) == UpperChar(c) \in UpperSet
LetterVal(c) == UpperIndex[UpperChar(c)]

RECURSIVE ColIndex(_)
ColIndex(letters) ==
    IF letters = <<>> THEN 0
    ELSE 26 * ColIndex(SubSeq(letters, 1, Len(letters) - 1))
         + LetterVal(letters[Len(letters)])

RECURSIVE IntChars(_)
IntChars(k) ==
    IF k < 10 THEN <<Digits[k + 1]>>
    ELSE IntChars(k \div 10) \o <<Digits[(k % 10) + 1]>>

\* the address f'{col}{row}'
Addr(col, row) == <<col>> \o IntChars(row)

InvalidAddress == <<0, 0>>

\* the number of letters an address starts with
RECURSIVE LeadingLetters(_)
LeadingLetters(a) ==
    IF a # <<>> /\ IsLetter(Head(a)) THEN 1 + LeadingLetters(Tail(a)) ELSE 0

Coordinate(col, row) ==
    IF /\ Len(col) \in 1..3
       /\ Len(row) >= 1
       /\ \A i \in 1..Len(row) : IsDigit(row[i])
       /\ DigitsVal(row) >= 1
    THEN <<DigitsVal(row), ColIndex(col)>>
    ELSE InvalidAddress

SplitAddress(a, k) == Coordinate(SubSeq(a, 1, k), SubSeq(a, k + 1, Len(a)))

\* sheet[cell_address].coordinate as <<row, column>>: one to three letters
\* followed by a row number >= 1; anything else raises
ResolveAddress(a) == SplitAddress(a, LeadingLetters(a))

InRange(rc, r) ==
    /\ r.min_row <= rc[1] /\ rc[1] <= r.max_row
    /\ r.min_col <= rc[2] /\ rc[2] <= r.max_col

Anchor(r) == <<r.min_row, r.min_col>>

CellValue(sheet, rc) == IF rc \in DOMAIN sheet.cells THEN sheet.cells[rc] ELSE NoneV

SetCell(sheet, rc, value) ==
    [sheet EXCEPT !.cells =
        [x \in (DOMAIN sheet.cells) \cup {rc} |->
            IF x = rc THEN value ELSE sheet.cells[x]]]

\* (variant) the write is not redirected to the anchor of the merged range
WriteTargetDirect(sheet, rc) == rc

\* the cell a write to coordinate rc lands on
WriteTarget(sheet, rc) ==
    IF \E r \in sheet.merged : InRange(rc, r)
    THEN Anchor(CHOOSE r \in sheet.merged : InRange(rc, r))
    ELSE rc

\* the try block of safe_write_cell: nothing is written when the address
\* does not resolve
WriteAt(sheet, coord, value) ==
    IF coord = InvalidAddress THEN sheet
    ELSE SetCell(sheet, WriteTarget(sheet, coord), value)

\* the sheet after safe_write_cell(sheet, cell_address, value)
safe_write_cell(sheet, cell_address, value) ==
    WriteAt(sheet, ResolveAddress(cell_address), value)

(***************************************************************************)
(* Records, JSON lists and dictionaries                                    *)
(***************************************************************************)
\* the text of a well-formed JSON list, with the list it encodes
JsonText(items) == [t |-> "json", n |-> 0, d |-> 1, s |-> <<>>, items |-> items]

\* a text json.loads cannot parse
MalformedJson == Str(<<"[", "{">>)

\* what a call leaves: the value it returns, or the exception it raises
Returned(value) == [raised |-> FALSE, value |-> value]

JSONDecodeError == [raised |-> TRUE, value |-> <<>>]

json_loads(text) == IF text.t = "json" THEN Returned(text.items) ELSE JSONDecodeError

\* dict.get(key, default) on a record or an entry of a list
Get(dict, key, default) == IF key \in DOMAIN dict THEN dict[key] ELSE default

\* json.loads(record.get(key, '[]')) if record.get(key) else []
LoadList(record, key) ==
    IF Truthy(Get(record, key, NoneV))
    THEN json_loads(Get(record, key, JsonText(<<>>)))
    ELSE Returned(<<>>)

\* cell_mapping: a dict from address to value, in insertion order
DictHas(dict, key) == \E i \in 1..Len(dict) : dict[i][1] = key

DictGet(dict, key, default) ==
    IF DictHas(dict, key)
    THEN dict[CHOOSE i \in 1..Len(dict) : dict[i][1] = key][2]
    ELSE default

DictSet(dict, key, value) ==
    IF DictHas(dict, key)
    THEN [i \in 1..Len(dict) |->
             IF dict[i][1] = key THEN <<key, value>> ELSE dict[i]]
    ELSE Append(dict, <<key, value>>)

\* cell_mapping[key] = value if cond
DictSetIf(cond, dict, key, value) == IF cond THEN DictSet(dict, key, value) ELSE dict

Min(a, b) == IF a < b THEN a ELSE b

\* the loop `for i in range(lo, hi): acc = Body(acc, i)`; the comparison makes
\* each pass compute its value before the next one starts
RECURSIVE ForRange(_, _, _, _)
ForRange(Body(_, _), acc, lo, hi) ==
    IF lo >= hi THEN acc
    ELSE LET next == Body(acc, lo)
         IN  IF next = next THEN ForRange(Body, next, lo + 1, hi) ELSE acc

Hundred == Num(100)

\* x / 100.0
Percent(x) == RatDiv(x, Hundred)

(***************************************************************************)
(* Form A: generate_faas_excel                                             *)
(***************************************************************************)
MaxRows == 4
RoundTo == 10
FaasLandRow == 22
FaasImprRow == 29
FaasMvRow == 36
FaasAssessRow == 43

\* str(record.get(key, '')).upper() if record.get(key) else ''
UpperIfSet(record, key) ==
    IF Truthy(Get(record, key, NoneV))
    THEN Str(Upper(Get(record, key, EmptyStr).s))
    ELSE EmptyStr

FaasScalarMapping(record) ==
    <<
       <<Addr("B", 6), Get(record, "arf_no", EmptyStr)>>,
       <<Addr("F", 6), Get(record, "pin", EmptyStr)>>,
       <<Addr("B", 7), Get(record, "oct_tct_no", EmptyStr)>>,
       <<Addr("F", 7), Get(record, "cln", EmptyStr)>>,
       <<Addr("B", 8), Get(record, "owner_name", EmptyStr)>>,
       <<Addr("F", 8), Get(record, "owner_address", EmptyStr)>>,
       <<Addr("B", 10), Get(record, "administrator_name", EmptyStr)>>,
       <<Addr("F", 10), Get(record, "administrator_address", EmptyStr)>>,
       <<Addr("B", 13), Get(record, "property_location", EmptyStr)>>,
       <<Addr("F", 13), Get(record, "property_municipality", EmptyStr)>>,
       <<Addr("B", 14), Get(record, "property_barangay", EmptyStr)>>,
       <<Addr("F", 14), Get(record, "property_province", EmptyStr)>>,
       <<Addr("B", 16), Get(record, "north_boundary", EmptyStr)>>,
       <<Addr("B", 17), Get(record, "east_boundary", EmptyStr)>>,
       <<Addr("B", 18), Get(record, "west_boundary", EmptyStr)>>,
       <<Addr("B", 19), Get(record, "south_boundary", EmptyStr)>>,
       <<Addr("B", 65), Get(record, "previous_td_no", EmptyStr)>>,
       <<Addr("B", 66), Get(record, "previous_owner", EmptyStr)>>,
       <<Addr("E", 65), Get(record, "effectivity_year", EmptyStr)>>,
       <<Addr("E", 66), UpperIfSet(record, "taxability")>>,
       <<Addr("H", 65), safe_float(Get(record, "previous_av_land", NoneV), NoneV)>>,
       <<Addr("H", 66), safe_float(Get(record, "previous_av_improvements", NoneV), NoneV)>>,
       <<Addr("A", 51), Get(record, "owner_administrator", EmptyStr)>>,
       <<Addr("B", 59), UpperIfSet(record, "memoranda_code")>>,
       <<Addr("A", 60), Get(record, "memoranda_paragraph", EmptyStr)>>
    >>

\* calc if calc != 0 else ''
BlankIfZero(calc) == IF calc # Num(0) THEN calc ELSE EmptyStr

\* (variant) the product is stored as it is
FaasLandValueUnrounded(cm, row, area, unit_value) ==
    IF Truthy(unit_value)
    THEN DictSetIf(RatGt0(area),
                   DictSet(cm, Addr("E", row), unit_value),
                   Addr("G", row), RatMul(area, unit_value))
    ELSE cm

\* if unit_value: E{row} = unit_value; if area > 0: G{row} = mround(...)
FaasLandValue(cm, row, area, unit_value) ==
    IF Truthy(unit_value)
    THEN DictSetIf(RatGt0(area),
                   DictSet(cm, Addr("E", row), unit_value),
                   Addr("G", row), mround(RatMul(area, unit_value), Num(RoundTo)))
    ELSE cm

FaasLandCells(cm, row, classification, sub_class, rawarea) ==
    FaasLandValue(
        DictSetIf(Truthy(rawarea),
            DictSetIf(Truthy(sub_class),
                DictSetIf(Truthy(classification), cm, Addr("A", row), classification),
                Addr("C", row), sub_class),
            Addr("D", row), safe_float(rawarea, Num(0))),
        row,
        safe_float(rawarea, Num(0)),
        calculate_land_unit_value(classification, sub_class))

\* one pass of the Land loop
FaasLandEntry(cm, item, i) ==
    FaasLandCells(cm, FaasLandRow + i,
                  Get(item, "classification", NoneV),
                  Get(item, "sub_class", NoneV),
                  Get(item, "area", NoneV))

\* (variant) a supplied raw unit value is preferred to the table price
OwnUnitValueRawFirst(unit_value, raw) ==
    IF Truthy(raw) THEN safe_float(raw, Num(0)) ELSE unit_value

\* if unit_value is None and item.get('unit_value_improvement'):
\*     unit_value = safe_float(item.get('unit_value_improvement'))
OwnUnitValue(unit_value, raw) ==
    IF IsNone(unit_value) /\ Truthy(raw) THEN safe_float(raw, Num(0))
    ELSE unit_value

\* the unit value an Improvement entry is valued with: the table price, or
\* the entry's own unit_value_improvement when the class is not in the table
ImprovementUnitValue(item) ==
    OwnUnitValue(calculate_improvement_unit_value(Get(item, "product_class", NoneV)),
                 Get(item, "unit_value_improvement", NoneV))

\* if unit_value: E{row} = unit_value; if qty > 0: G{row} = qty * unit_value
FaasImprovementValue(cm, row, qty, unit_value) ==
    IF Truthy(unit_value)
    THEN DictSetIf(RatGt0(qty),
                   DictSet(cm, Addr("E", row), unit_value),
                   Addr("G", row), RatMul(qty, unit_value))
    ELSE cm

FaasImprovementCells(cm, row, product_class, qty, unit_value) ==
    FaasImprovementValue(
        DictSetIf(Truthy(qty),
            DictSetIf(Truthy(product_class), cm, Addr("A", row), product_class),
            Addr("C", row), qty),
        row, qty, unit_value)

\* one pass of the Improvement loop
FaasImprovementEntry(cm, item, i) ==
    FaasImprovementCells(cm, FaasImprRow + i,
                         Get(item, "product_class", NoneV),
                         safe_int(Get(item, "improvement_qty", NoneV), Num(0)),
                         ImprovementUnitValue(item))

\* mv_sources: the nonzero G cells of the Land rows, then of the Improvement rows
FaasMvSources(cm, land_appraisals, improvements) ==
    LET Take(acc, row) ==
            IF Truthy(DictGet(cm, Addr("G", row), Num(0)))
            THEN Append(acc, DictGet(cm, Addr("G", row), Num(0)))
            ELSE acc
    IN  ForRange(LAMBDA acc, i : Take(acc, FaasImprRow + i),
                 ForRange(LAMBDA acc, i : Take(acc, FaasLandRow + i),
                          <<>>, 0, Min(MaxRows, Len(land_appraisals))),
                 0, Min(MaxRows, Len(improvements)))

\* D{row} and G{row} of a Market Value row
FaasMarketValueCells(cm, row, mv, percent_adj) ==
    IF Truthy(percent_adj)
    THEN DictSet(DictSet(cm, Addr("D", row), Percent(percent_adj)),
                 Addr("G", row),
                 BlankIfZero(mround(RatMul(mv, Percent(percent_adj)), Num(RoundTo))))
    ELSE DictSet(cm, Addr("G", row), mv)

\* one pass of the Market Value loop
FaasMarketValueRow(cm, mv, mv_item, i) ==
    FaasMarketValueCells(
        DictSetIf(Truthy(Get(mv_item, "adj_factor", EmptyStr)),
                  DictSet(cm, Addr("A", FaasMvRow + i), mv),
                  Addr("C", FaasMvRow + i), Get(mv_item, "adj_factor", EmptyStr)),
        FaasMvRow + i, mv,
        safe_float(Get(mv_item, "percent_adjustment", NoneV), Num(0)))

FaasAssessmentCells(cm, row, kind, actual_use, mv_from_g, assessment_level) ==
    DictSetIf(Truthy(mv_from_g) /\ Truthy(assessment_level),
        DictSetIf(Truthy(assessment_level),
            DictSetIf(Truthy(mv_from_g),
                DictSetIf(Truthy(actual_use),
                    DictSetIf(Truthy(kind), cm, Addr("A", row), kind),
                    Addr("B", row), actual_use),
                Addr("C", row), mv_from_g),
            Addr("E", row), Percent(assessment_level)),
        Addr("G", row),
        BlankIfZero(mround(RatMul(mv_from_g, Percent(assessment_level)), Num(RoundTo))))

\* one pass of the Assessment loop
FaasAssessmentRow(cm, g36_values, item, i) ==
    FaasAssessmentCells(cm, FaasAssessRow + i,
                        Get(item, "kind", NoneV),
                        Get(item, "actual_use", NoneV),
                        g36_values[i + 1],
                        safe_float(Get(item, "assessment_level", NoneV), Num(0)))

\* g36_values = [cell_mapping.get(f'G{36 + i}', 0) for i in range(4)]
FaasG36Values(cm) ==
    [i \in 1..MaxRows |-> DictGet(cm, Addr("G", FaasMvRow + i - 1), Num(0))]

\* the Assessment loop
FaasAssessmentRows(cm, g36_values, assessments) ==
    ForRange(LAMBDA c, i : FaasAssessmentRow(c, g36_values, assessments[i + 1], i),
             cm, 0, Min(MaxRows, Len(assessments)))

\* the Market Value loop over mv_sources[:4]
FaasMarketValueRows(cm, mv_sources, market_values) ==
    ForRange(LAMBDA c, i :
                 FaasMarketValueRow(c, mv_sources[i + 1],
                                    IF i < Len(market_values) THEN market_values[i + 1]
                                    ELSE <<>>, i),
             cm, 0, Min(MaxRows, Len(mv_sources)))

\* the Land loop, then the Improvement loop
FaasEntryRows(cm, land_appraisals, improvements) ==
    ForRange(LAMBDA c, i : FaasImprovementEntry(c, improvements[i + 1], i),
             ForRange(LAMBDA c, i : FaasLandEntry(c, land_appraisals[i + 1], i),
                      cm, 0, Min(MaxRows, Len(land_appraisals))),
             0, Min(MaxRows, Len(improvements)))

\* the mapping after the Market Value rows, given the one after the entries
FaasConsolidate(cm, land_appraisals, improvements, market_values) ==
    FaasMarketValueRows(cm, FaasMvSources(cm, land_appraisals, improvements),
                        market_values)

FaasAssess(cm, assessments) == FaasAssessmentRows(cm, FaasG36Values(cm), assessments)

\* cell_mapping as generate_faas_excel builds it from the record and its lists
FaasCellMapping(record, land_appraisals, improvements, market_values, assessments) ==
    FaasAssess(FaasConsolidate(FaasEntryRows(FaasScalarMapping(record),
                                             land_appraisals, improvements),
                               land_appraisals, improvements, market_values),
               assessments)

\* the test of the write loop: value != '' and not the text 'none' in any case
FaasWritable(value) ==
    /\ value # EmptyStr
    /\ ~(IsStr(value) /\ Lower(value.s) = <<"n", "o", "n", "e">>)

\* (variant) the pass ends at the first address that does not resolve
FaasWriteCellsUntilBad(sheet, cm) ==
    ForRange(LAMBDA sh, i :
                 IF /\ FaasWritable(cm[i + 1][2])
                    /\ \A j \in 1..(i + 1) : ResolveAddress(cm[j][1]) # InvalidAddress
                 THEN safe_write_cell(sh, cm[i + 1][1], cm[i + 1][2])
                 ELSE sh,
             sheet, 0, Len(cm))

\* for cell, value in cell_mapping.items(): write the writable values
FaasWriteCells(sheet, cm) ==
    ForRange(LAMBDA sh, i :
                 IF FaasWritable(cm[i + 1][2])
                 THEN safe_write_cell(sh, cm[i + 1][1], cm[i + 1][2])
                 ELSE sh,
             sheet, 0, Len(cm))

\* what a generation call leaves behind: the pair it returns (result, error),
\* the stages it ran, and the workbook in memory and on disk
Outcome(result, error, stages, mapping, sheets, saved) ==
    [result |-> result, error |-> error, stages |-> stages, mapping |-> mapping,
     sheets |-> sheets, saved |-> saved]

ErrorText(text) == [t |-> "str", text |-> text]

SuccessResult(form) == [t |-> "dict", success |-> TRUE, form |-> form]

NoSheets == <<>>

\* the cells of a template: a formula or label in every cell the form
\* addresses, except the cells a merged range covers without being its anchor
TemplateSheet(coords, merged) ==
    [cells |-> [rc \in coords \cup UNION {(r.min_row..r.max_row) \X (r.min_col..r.max_col) :
                                           r \in merged} |->
                   IF \E r \in merged : InRange(rc, r) /\ rc # Anchor(r)
                   THEN NoneV ELSE Formula],
     merged |-> merged]

RowCells(cols, first) ==
    {<<first + i, ColIndex(<<c>>)>> : i \in 0..(MaxRows - 1), c \in cols}

FaasTemplate ==
    TemplateSheet(
        {ResolveAddress(a) : a \in {FaasScalarMapping(<<>>)[i][1] :
                                       i \in 1..Len(FaasScalarMapping(<<>>))}}
        \cup RowCells({"A", "C", "D", "E", "G"}, FaasLandRow)
        \cup RowCells({"A", "C", "E", "G"}, FaasImprRow)
        \cup RowCells({"A", "C", "D", "G"}, FaasMvRow)
        \cup RowCells({"A", "B", "C", "E", "G"}, FaasAssessRow),
        {[min_row |-> 8, max_row |-> 8, min_col |-> 2, max_col |-> 4],
         [min_row |-> 60, max_row |-> 61, min_col |-> 1, max_col |-> 3]})

\* one of the four json.loads calls raised
AnyError(record) ==
    \E key \in {"land_appraisals_json", "improvements_json",
                "market_values_json", "assessments_json"} :
        LoadList(record, key).raised

\* (variant) a failed save is not noticed
FaasSaveUnchecked(env, cm, sheet) ==
    Outcome(SuccessResult("FAAS"), NoneV,
            <<"load", "validate", "map", "write", "persist", "report">>,
            cm, <<sheet>>, IF env.faas_save_ok THEN <<sheet>> ELSE NoSheets)

\* workbook.save(output_path) and the pair returned
FaasSave(env, cm, sheet) ==
    IF ~env.faas_save_ok
    THEN Outcome(NoneV, ErrorText("Error generating Excel"),
                 <<"load", "validate", "map", "write", "persist">>,
                 cm, <<sheet>>, NoSheets)
    ELSE Outcome(SuccessResult("FAAS"), NoneV,
                 <<"load", "validate", "map", "write", "persist", "report">>,
                 cm, <<sheet>>, <<sheet>>)

FaasWriteAndSave(env, cm) == FaasSave(env, cm, FaasWriteCells(FaasTemplate, cm))

generate_faas_excel(record, env) ==
    IF record = NoneV
    THEN Outcome(NoneV, ErrorText("FAAS record not found"),
                 <<"load", "validate">>, <<>>, NoSheets, NoSheets)
    ELSE IF ~env.faas_template
    THEN Outcome(NoneV, ErrorText("Template not found"),
                 <<"load", "validate">>, <<>>, NoSheets, NoSheets)
    ELSE IF AnyError(record)
    THEN Outcome(NoneV, ErrorText("Error generating Excel"),
                 <<"load", "validate", "map">>, <<>>, <<FaasTemplate>>, NoSheets)
    ELSE FaasWriteAndSave(env,
             FaasCellMapping(record,
                             LoadList(record, "land_appraisals_json").value,
                             LoadList(record, "improvements_json").value,
                             LoadList(record, "market_values_json").value,
                             LoadList(record, "assessments_json").value))

(***************************************************************************)
(* Form B: generate_unirrig_excel                                          *)
(***************************************************************************)
UnirrigLandRow == 28
UnirrigImprRow == 42
UnirrigAssessRow == 54
TotalsRow == 36

\* the digits of k in groups of three separated by commas
RECURSIVE GroupThousands(_)
GroupThousands(k) ==
    IF k < 1000 THEN IntChars(k)
    ELSE LET r == k % 1000
         IN  GroupThousands(k \div 1000) \o <<",">>
             \o <<Digits[(r \div 100) + 1], Digits[((r \div 10) % 10) + 1],
                  Digits[(r % 10) + 1]>>

\* f"{x:,.4f}"
Format4(x) ==
    LET scaled == RoundHalfEven(Abs(x.n) * 10000, x.d)
        frac   == scaled % 10000
    IN  Str((IF x.n < 0 /\ scaled # 0 THEN <<"-">> ELSE <<>>)
            \o GroupThousands(scaled \div 10000) \o <<".">>
            \o <<Digits[(frac \div 1000) + 1], Digits[((frac \div 100) % 10) + 1],
                 Digits[((frac \div 10) % 10) + 1], Digits[(frac % 10) + 1]>>)

\* unirrig_mapping as first built from the record
UnirrigScalarMapping(record) ==
    <<
       <<Addr("J", 3), Get(record, "pin", EmptyStr)>>,
       <<Addr("A", 7), Get(record, "memoranda_code", EmptyStr)>>,
       <<Addr("B", 11), Get(record, "owner_name", EmptyStr)>>,
       <<Addr("H", 11), Get(record, "owner_address", EmptyStr)>>,
       <<Addr("B", 13), Get(record, "administrator_name", EmptyStr)>>,
       <<Addr("H", 13), Get(record, "administrator_address", EmptyStr)>>,
       <<Addr("C", 17), Get(record, "property_location", EmptyStr)>>,
       <<Addr("I", 17), Get(record, "property_municipality", EmptyStr)>>,
       <<Addr("G", 17), Get(record, "property_province", EmptyStr)>>,
       <<Addr("C", 19), Get(record, "oct_tct_no", EmptyStr)>>,
       <<Addr("H", 19), Get(record, "cln", EmptyStr)>>,
       <<Addr("B", 21), Get(record, "north_boundary", EmptyStr)>>,
       <<Addr("I", 21), Get(record, "south_boundary", EmptyStr)>>,
       <<Addr("B", 22), Get(record, "east_boundary", EmptyStr)>>,
       <<Addr("I", 22), Get(record, "west_boundary", EmptyStr)>>,
       <<Addr("H", 62), Get(record, "memoranda_paragraph", EmptyStr)>>
    >>

\* str(value) for a text or a whole number
StrOf(value) == IF IsStr(value) THEN value.s ELSE IntChars(value.n)

\* [p.strip() for p in str(adj_factor_raw).split(',')]
StripAll(ps) == [i \in 1..Len(ps) |-> Str(Strip(ps[i]))]

AdjParts(adj_factor_raw) == StripAll(Split(StrOf(adj_factor_raw), ","))

\* safe_float(adj_parts[k]) / 100.0
AdjPart(adj_parts, k) == Percent(safe_float(adj_parts[k], Num(0)))

\* Adj. Factor parts -> G42, G45, G48
UnirrigAdjParts(um, adj_parts) ==
    DictSetIf(Len(adj_parts) > 2,
        DictSetIf(Len(adj_parts) > 1,
            DictSetIf(Len(adj_parts) > 0, um, Addr("G", 42), AdjPart(adj_parts, 1)),
            Addr("G", 45), AdjPart(adj_parts, 2)),
        Addr("G", 48), AdjPart(adj_parts, 3))

UnirrigAdjFactor(um, adj_factor_raw) ==
    IF Truthy(adj_factor_raw) THEN UnirrigAdjParts(um, AdjParts(adj_factor_raw))
    ELSE um

\* % Adjustment -> G50
UnirrigPercentAdj(um, percent_adj) ==
    DictSetIf(Truthy(percent_adj), um, Addr("G", 50),
              Percent(safe_float(percent_adj, Num(0))))

\* unirrig_mapping with the percent adjustment and the adjustment factor
\* parts of the first market_values entry
UnirrigMapping(record, market_values) ==
    IF Len(market_values) > 0
    THEN UnirrigAdjFactor(
             UnirrigPercentAdj(UnirrigScalarMapping(record),
                               Get(market_values[1], "percent_adjustment", NoneV)),
             Get(market_values[1], "adj_factor", EmptyStr))
    ELSE UnirrigScalarMapping(record)

\* the test of the Sheet1 write loop: value != '' and value is not None
UnirrigWritable(value) == value # EmptyStr /\ ~IsNone(value)

UnirrigWriteMapping(sheet, um) ==
    ForRange(LAMBDA sh, i :
                 IF UnirrigWritable(um[i + 1][2])
                 THEN safe_write_cell(sh, um[i + 1][1], um[i + 1][2])
                 ELSE sh,
             sheet, 0, Len(um))

\* self.safe_write_cell(sheet, address, value) if cond
WriteIf(cond, sheet, address, value) ==
    IF cond THEN safe_write_cell(sheet, address, value) ELSE sheet

\* if value: self.safe_write_cell(sheet, address, value)
WriteIfSet(sheet, address, value) == WriteIf(Truthy(value), sheet, address, value)

UnirrigWritePinParts(sheet, pin_parts) ==
    IF Len(pin_parts) >= 5
    THEN safe_write_cell(safe_write_cell(sheet, Addr("K", 20), Str(pin_parts[4])),
                         Addr("K", 19), Str(pin_parts[5]))
    ELSE sheet

\* PIN -> K19, K20
UnirrigWritePin(sheet, pin) == UnirrigWritePinParts(sheet, Split(pin.s, "-"))

UnirrigLandCells(sheet, row, classification, sub_class, rawarea) ==
    WriteIfSet(
        WriteIf(Truthy(rawarea),
            WriteIfSet(WriteIfSet(sheet, Addr("E", row), classification),
                       Addr("H", row), sub_class),
            Addr("G", row), Format4(safe_float(rawarea, Num(0)))),
        Addr("I", row), calculate_land_unit_value(classification, sub_class))

\* Land Appraisals -> Sheet1 rows 28-31
UnirrigLandEntry(sheet, item, i) ==
    UnirrigLandCells(sheet, UnirrigLandRow + i,
                     Get(item, "classification", NoneV),
                     Get(item, "sub_class", NoneV),
                     Get(item, "area", NoneV))

\* `x or 0`
OrZero(x) == IF Truthy(x) THEN x ELSE Num(0)

\* mround(amount * unit, 10) if amount and unit else 0
MarketValueOf(amount, unit) ==
    IF Truthy(amount) /\ Truthy(unit)
    THEN mround(RatMul(amount, unit), Num(RoundTo)) ELSE Num(0)

\* the market value Form B computes for a Land entry
UnirrigLandMv(item) ==
    MarketValueOf(safe_float(Get(item, "area", NoneV), Num(0)),
                  OrZero(calculate_land_unit_value(Get(item, "classification", EmptyStr),
                                                   Get(item, "sub_class", EmptyStr))))

\* the market value Form B computes for an Improvement entry
UnirrigImprovementMv(item) ==
    MarketValueOf(safe_int(Get(item, "improvement_qty", NoneV), Num(0)),
                  OrZero(ImprovementUnitValue(item)))

UnirrigImprovementCells(sheet, row, pc, qty, u_val_safe, mv) ==
    WriteIfSet(WriteIfSet(WriteIfSet(WriteIfSet(sheet, Addr("H", row), pc),
                                     Addr("I", row), qty),
                          Addr("J", row), u_val_safe),
               Addr("K", row), mv)

\* Improvements -> Sheet1 rows 42-45
UnirrigImprovementEntry(sheet, item, i) ==
    IF i < MaxRows
    THEN UnirrigImprovementCells(sheet, UnirrigImprRow + i,
                                 Get(item, "product_class", EmptyStr),
                                 safe_int(Get(item, "improvement_qty", NoneV), Num(0)),
                                 OrZero(ImprovementUnitValue(item)),
                                 UnirrigImprovementMv(item))
    ELSE sheet

\* if mv: base_mvs.append(float(mv))
AppendIfSet(acc, mv) == IF Truthy(mv) THEN Append(acc, mv) ELSE acc

\* base_mvs: the nonzero market values of every Land entry, then of every
\* Improvement entry
UnirrigBaseMvs(land_appraisals, improvements) ==
    ForRange(LAMBDA acc, i : AppendIfSet(acc, UnirrigImprovementMv(improvements[i + 1])),
             ForRange(LAMBDA acc, i : AppendIfSet(acc, UnirrigLandMv(land_appraisals[i + 1])),
                      <<>>, 0, Len(land_appraisals)),
             0, Len(improvements))

\* float(calc_g) if calc_g != 0 else float(mv)
OrBase(calc_g, mv) == IF calc_g # Num(0) THEN calc_g ELSE mv

AdjustedMv(mv, percent_adj) ==
    IF Truthy(percent_adj)
    THEN OrBase(mround(RatMul(mv, Percent(percent_adj)), Num(RoundTo)), mv)
    ELSE mv

UnirrigAdjustedMvs(base_mvs, market_values) ==
    [k \in 1..Min(MaxRows, Len(base_mvs)) |->
        AdjustedMv(base_mvs[k],
                   safe_float(Get(IF k - 1 < Len(market_values) THEN market_values[k]
                                  ELSE <<>>,
                                  "percent_adjustment", NoneV), Num(0)))]

\* total += float(mv) over the list
SumOf(mvs) == ForRange(LAMBDA acc, i : RatAdd(acc, mvs[i + 1]), Num(0), 0, Len(mvs))

\* pct_adj: the first percent adjustment / 100.0, or 0.0 without market values
FirstPctAdj(market_values) ==
    IF Len(market_values) > 0
    THEN Percent(safe_float(Get(market_values[1], "percent_adjustment", NoneV), Num(0)))
    ELSE Num(0)

ScaledTotal(total, pct_adj) ==
    IF pct_adj # Num(0) THEN mround(RatMul(total, pct_adj), Num(RoundTo))
    ELSE total

\* J36 or J37: the sum of the market values, scaled by the first percent
\* adjustment and rounded when there is one
UnirrigTotal(mvs, market_values) == ScaledTotal(SumOf(mvs), FirstPctAdj(market_values))

UnirrigAssessmentCells(sheet2, row, kind, actual_use, market_val_detail, assessment_level) ==
    WriteIf(Truthy(market_val_detail) /\ Truthy(assessment_level),
        WriteIf(Truthy(assessment_level),
            WriteIfSet(WriteIfSet(WriteIfSet(sheet2, Addr("A", row), kind),
                                  Addr("D", row), actual_use),
                       Addr("G", row), market_val_detail),
            Addr("I", row), Percent(assessment_level)),
        Addr("K", row),
        BlankIfZero(mround(RatMul(market_val_detail, Percent(assessment_level)),
                           Num(RoundTo))))

UnirrigAssessmentRow(sheet2, adjusted_mvs, item, i) ==
    UnirrigAssessmentCells(sheet2, UnirrigAssessRow + i,
                           Get(item, "kind", EmptyStr),
                           Get(item, "actual_use", EmptyStr),
                           IF i < Len(adjusted_mvs) THEN adjusted_mvs[i + 1] ELSE Num(0),
                           safe_float(Get(item, "assessment_level", NoneV), Num(0)))

LandMvs(land_appraisals) ==
    [k \in 1..Len(land_appraisals) |-> UnirrigLandMv(land_appraisals[k])]

ImprovementMvs(improvements) ==
    [k \in 1..Len(improvements) |-> UnirrigImprovementMv(improvements[k])]

\* the Sheet2 block: the two totals, then the assessment rows
UnirrigSheet2(sheet2, land_appraisals, improvements, market_values, assessments, adjusted_mvs) ==
    ForRange(LAMBDA sh, i : UnirrigAssessmentRow(sh, adjusted_mvs, assessments[i + 1], i),
             safe_write_cell(
                 safe_write_cell(sheet2, Addr("J", TotalsRow),
                                 UnirrigTotal(LandMvs(land_appraisals), market_values)),
                 Addr("J", TotalsRow + 1),
                 UnirrigTotal(ImprovementMvs(improvements), market_values)),
             0, Min(MaxRows, Len(assessments)))

UnirrigSheet1Template ==
    TemplateSheet(
        {ResolveAddress(a) : a \in {UnirrigScalarMapping(<<>>)[i][1] :
                                       i \in 1..Len(UnirrigScalarMapping(<<>>))}}
        \cup {ResolveAddress(Addr("G", r)) : r \in {42, 45, 48, 50}}
        \cup {ResolveAddress(Addr("K", r)) : r \in {19, 20}}
        \cup RowCells({"E", "G", "H", "I"}, UnirrigLandRow)
        \cup RowCells({"H", "I", "J", "K"}, UnirrigImprRow),
        {[min_row |-> 11, max_row |-> 11, min_col |-> 2, max_col |-> 5],
         [min_row |-> 62, max_row |-> 63, min_col |-> 8, max_col |-> 11]})

UnirrigSheet2Template ==
    TemplateSheet(
        {ResolveAddress(Addr("J", r)) : r \in {TotalsRow, TotalsRow + 1}}
        \cup RowCells({"A", "D", "G", "I", "K"}, UnirrigAssessRow),
        {[min_row |-> 54, max_row |-> 54, min_col |-> 1, max_col |-> 3]})

\* the workbook load_workbook returns: Sheet1, and Sheet2 when the template has it
UnirrigTemplate(env) ==
    IF env.unirrig_template = "two_sheets"
    THEN <<UnirrigSheet1Template, UnirrigSheet2Template>>
    ELSE <<UnirrigSheet1Template>>

\* the except block: (None, error), nothing saved
UnirrigFailed(stages, partial) ==
    Outcome(NoneV, ErrorText("Error generating UNIRRIG Excel"),
            stages, <<>>, partial, NoSheets)

\* workbook.save(output_path) and the pair returned
UnirrigSave(env, mapping, sheets) ==
    IF ~env.unirrig_save_ok
    THEN Outcome(NoneV, ErrorText("Error generating UNIRRIG Excel"),
                 <<"load", "validate", "map", "write", "persist">>,
                 mapping, sheets, NoSheets)
    ELSE Outcome(SuccessResult("UNIRRIG"), NoneV,
                 <<"load", "validate", "map", "write", "persist", "report">>,
                 mapping, sheets, sheets)

\* Sheet1 after the PIN cells, the Land rows and the Improvement rows
UnirrigSheet1Rows(sheet, pin, land_appraisals, improvements) ==
    ForRange(LAMBDA sh, i : UnirrigImprovementEntry(sh, improvements[i + 1], i),
             ForRange(LAMBDA sh, i : UnirrigLandEntry(sh, land_appraisals[i + 1], i),
                      UnirrigWritePin(sheet, pin),
                      0, Min(MaxRows, Len(land_appraisals))),
             0, Len(improvements))

UnirrigSheets(template, sheet1, land_appraisals, improvements, market_values, assessments, adjusted_mvs) ==
    IF Len(template) > 1
    THEN <<sheet1, UnirrigSheet2(template[2], land_appraisals, improvements,
                                 market_values, assessments, adjusted_mvs)>>
    ELSE <<sheet1>>

\* the call from the PIN on; pin.split('-') raises AttributeError when pin
\* is not a text
UnirrigFill(env, template, um, sheet, pin, land_appraisals, improvements, market_values, assessments, base_mvs, adjusted_mvs) ==
    IF ~IsStr(pin)
    THEN UnirrigFailed(<<"load", "validate", "map", "write">>,
                       [template EXCEPT ![1] = sheet])
    ELSE UnirrigSave(env,
                     [um |-> um, base_mvs |-> base_mvs, adjusted_mvs |-> adjusted_mvs],
                     UnirrigSheets(template,
                                   UnirrigSheet1Rows(sheet, pin, land_appraisals,
                                                     improvements),
                                   land_appraisals, improvements, market_values,
                                   assessments, adjusted_mvs))

UnirrigAdjustAndFill(env, template, um, pin, land_appraisals, improvements, market_values, assessments, base_mvs) ==
    UnirrigFill(env, template, um, UnirrigWriteMapping(template[1], um), pin,
                land_appraisals, improvements, market_values, assessments,
                base_mvs, UnirrigAdjustedMvs(base_mvs, market_values))

UnirrigGenerate(record, env, template, land_appraisals, improvements, market_values, assessments) ==
    UnirrigAdjustAndFill(env, template, UnirrigMapping(record, market_values),
                         Get(record, "pin", EmptyStr),
                         land_appraisals, improvements, market_values, assessments,
                         UnirrigBaseMvs(land_appraisals, improvements))

generate_unirrig_excel(record, env) ==
    IF record = NoneV
    THEN Outcome(NoneV, ErrorText("UNIRRIG record not found"),
                 <<"load", "validate">>, <<>>, NoSheets, NoSheets)
    ELSE IF env.unirrig_template = "missing"
    THEN Outcome(NoneV, ErrorText("Template not found"),
                 <<"load", "validate">>, <<>>, NoSheets, NoSheets)
    ELSE IF AnyError(record)
    THEN UnirrigFailed(<<"load", "validate", "map">>, UnirrigTemplate(env))
    ELSE UnirrigGenerate(record, env, UnirrigTemplate(env),
                         LoadList(record, "land_appraisals_json").value,
                         LoadList(record, "improvements_json").value,
                         LoadList(record, "market_values_json").value,
                         LoadList(record, "assessments_json").value)

(***************************************************************************)
(* SpecWrite: safe_write_cell on a small worksheet                         *)
(***************************************************************************)
GridRows == 2
GridCols == 2
MaxWrites == 1

Grid == (1..GridRows) \X (1..GridCols)

Ranges ==
    {r \in [min_row : 1..GridRows, max_row : 1..GridRows,
            min_col : 1..GridCols, max_col : 1..GridCols] :
        /\ r.min_row <= r.max_row /\ r.min_col <= r.max_col
        /\ (r.min_row < r.max_row \/ r.min_col < r.max_col)}

Overlap(r1, r2) == \E rc \in Grid : InRange(rc, r1) /\ InRange(rc, r2)

\* a worksheet never holds two merged ranges that share a cell
MergedLayouts ==
    {{}} \cup {{r} : r \in Ranges}
         \cup {{r1, r2} : <<r1, r2>> \in {p \in Ranges \X Ranges : ~Overlap(p[1], p[2])}}

\* only the anchor of a merged range stores a value
TemplateCells(merged) ==
    [rc \in Grid |->
        IF \E r \in merged : InRange(rc, r) /\ rc # Anchor(r)
        THEN NoneV ELSE Formula]

\* the addresses of the grid as a caller spells them, each with the
\* <<row, column>> it names
GridAddresses ==
    {[address |-> Addr(UpperCase[c], r), coord |-> <<r, c>>] :
        r \in 1..GridRows, c \in 1..GridCols}
    \cup {[address |-> Addr(LowerCase[1], r), coord |-> <<r, 1>>] : r \in {1}}

BadAddresses == {<<"A", "0">>, <<"A">>, <<"A", "-", "1">>}

WriteValues == {Str(<<"x">>), Num(7)}

NoWrite == [n |-> 0, address |-> <<>>, coord |-> InvalidAddress,
            value |-> NoneV, before |-> <<>>]

InitWrite ==
    /\ call = NoneV
    /\ rec = NoneV /\ setup = NoneV /\ mode = "" /\ step = ""
    /\ faas = NoneV /\ unirrig = NoneV /\ out = NoneV
    /\ last = NoWrite
    /\ \E m \in MergedLayouts : ws = [cells |-> TemplateCells(m), merged |-> m]

WriteCell(a, rc, v) ==
    /\ last.n < MaxWrites
    /\ ws' = safe_write_cell(ws, a, v)
    /\ last' = [n |-> last.n + 1, address |-> a, coord |-> rc, value |-> v,
                before |-> ws.cells]
    /\ UNCHANGED <<call, rec, setup, mode, step, faas, unirrig, out>>

WriteGood == \E a \in GridAddresses, v \in WriteValues : WriteCell(a.address, a.coord, v)
WriteBad == \E a \in BadAddresses, v \in WriteValues : WriteCell(a, InvalidAddress, v)

\* a mapping with an address that does not resolve between two that do
PassMapping(first, bad, second) ==
    <<<<first, Str(<<"x">>)>>, <<bad, Num(7)>>, <<second, Num(7)>>>>

\* the write loop of a generation pass over such a mapping, on the workbook
\* as loaded, and the save that ends the pass
WritePass ==
    /\ last.n = 0
    /\ \E a1 \in GridAddresses, b \in BadAddresses, a2 \in GridAddresses,
          ok \in BOOLEAN :
         /\ ws' = FaasWriteCells(ws, PassMapping(a1.address, b, a2.address))
         /\ faas' = FaasSave([faas_save_ok |-> ok],
                             PassMapping(a1.address, b, a2.address),
                             FaasWriteCells(ws, PassMapping(a1.address, b, a2.address)))
         /\ call' = [t |-> "pass", coords |-> <<a1.coord, a2.coord>>, save_ok |-> ok]
    /\ last' = [n |-> MaxWrites, address |-> <<>>, coord |-> InvalidAddress,
                value |-> NoneV, before |-> ws.cells]
    /\ UNCHANGED <<rec, setup, mode, step, unirrig, out>>

NextWrite == WriteGood \/ WriteBad \/ WritePass

SpecWrite == InitWrite /\ [][NextWrite]_vars


\* C2: a write of a non-empty value to a coordinate inside a merged range is
\* stored in the top-left anchor cell of that range, a write to a coordinate
\* in no merged range is stored in that coordinate, and in both cases every
\* other cell (the requested coordinate included, when it is not the anchor)
\* keeps the value it had before the write.
C2_WriteLandsOnAnchor ==
    (last.n > 0 /\ last.coord # InvalidAddress /\ Truthy(last.value)) =>
        LET inside == {r \in ws.merged : InRange(last.coord, r)}
            target == IF inside = {} THEN last.coord
                      ELSE <<(CHOOSE r \in inside : TRUE).min_row,
                             (CHOOSE r \in inside : TRUE).min_col>>
        IN  /\ DOMAIN ws.cells = Grid
            /\ ws.cells[target] = last.value
            /\ \A rc \in Grid \ {target} : ws.cells[rc] = last.before[rc]

C2_Witness ==
    /\ last.n > 0 /\ last.coord # InvalidAddress
    /\ \E r \in ws.merged :
         /\ InRange(last.coord, r) /\ last.coord # <<r.min_row, r.min_col>>
         /\ ws.cells[<<r.min_row, r.min_col>>] = last.value
         /\ ws.cells[last.coord] = NoneV

(***************************************************************************)
(* SpecLookup: the pure functions applied to inputs drawn from small sets  *)
(***************************************************************************)
MaxAmount == 60

Classifications ==
{
    <<"C","O","M","M","E","R","C","I","A","L">>,
    <<"R","E","S","I","D","E","N","T","I","A","L">>,
    <<"C","O","C","A","L">>,
    <<"I","R","R","I","G","A","T","E","D">>,
    <<"U","N","I","R","R","I","G","A","T","E","D">>,
    <<"U","P","L","A","N","D">>,
    <<"O","R","C","H","A","R","D">>,
    <<"C","O","G","O","N"," ","L","A","N","D">>,
    <<"N","I","P","A"," ","L","A","N","D">>,
    <<"F","O","R","E","S","T"," ","L","A","N","D">>,
    <<"F","I","S","H","P","O","N","D">>,
    <<"S","W","A","M","P">>,
    <<"C","O","G","O","N">>}

SubClasses ==
{
    <<"C","-","1">>,
    <<"C","-","2">>,
    <<"C","-","3">>,
    <<"C","-","4">>,
    <<"R","-","1">>,
    <<"R","-","2">>,
    <<"R","-","3">>,
    <<"R","-","4">>,
    <<"R","-","5">>,
    <<"1">>,
    <<"2">>,
    <<"3">>,
    <<"R","-","9">>,
    <<"4">>}

ProductClasses ==
{
    <<"C","O","C","O"," ","B","R","G",".","-","1">>,
    <<"C","O","C","O"," ","B","R","G",".","-","2">>,
    <<"C","O","C","O"," ","B","R","G",".","-","3">>,
    <<"A","V","O","C","A","D","O">>,
    <<"B","A","N","A","N","A">>,
    <<"C","A","C","A","O">>,
    <<"C","A","L","A","M","A","N","S","I">>,
    <<"C","A","M","A","N","S","I">>,
    <<"C","H","I","C","O">>,
    <<"C","O","F","F","E","E">>,
    <<"J","A","C","K","F","R","U","I","T">>,
    <<"L","A","N","Z","O","N","E","S">>,
    <<"M","A","B","O","L","O">>,
    <<"M","A","N","G","O">>,
    <<"O","R","A","N","G","E">>,
    <<"R","A","M","B","U","T","A","N">>,
    <<"S","A","N","T","O","L">>,
    <<"S","I","N","E","G","U","E","L","A","S">>,
    <<"S","T","A","R"," ","A","P","P","L","E">>,
    <<"T","A","M","A","R","I","N","D">>,
    <<"B","A","M","B","O","O">>,
    <<"B","U","R","I">>,
    <<"N","I","P","A">>,
    <<"N","A","R","R","A">>,
    <<"M","A","N","G","O","E","S">>}

\* the ways a code is spelled in a record: as is, in lower case, padded
Spellings == {"plain", "lower", "padded"}

Spell(code, how) ==
    CASE how = "plain"  -> code
      [] how = "lower"  -> Lower(code)
      [] how = "padded" -> <<" ">> \o Lower(code) \o <<" ", "\n">>

BlankInputs == {NoneV, EmptyStr}

CodeInputs(codes) ==
    {[raw |-> Str(Spell(c, h)), key |-> Join(c)] : c \in codes, h \in Spellings}
    \cup {[raw |-> b, key |-> ""] : b \in BlankInputs}

MroundAmounts == {NoneV} \cup {Num(x) : x \in (-MaxAmount)..MaxAmount}
MroundMultiples == {NoneV, Num(0), Num(10)}

NoCall == [op |-> "none", a |-> NoneV, b |-> NoneV, ret |-> NoneV,
           key |-> <<"", "">>]

InitLookup ==
    /\ call = NoCall /\ ws = NoneV /\ last = NoneV
    /\ rec = NoneV /\ setup = NoneV /\ mode = "" /\ step = ""
    /\ faas = NoneV /\ unirrig = NoneV /\ out = NoneV

CallMround ==
    /\ call = NoCall
    /\ \E x \in MroundAmounts, m \in MroundMultiples :
         call' = [op |-> "mround", a |-> x, b |-> m, ret |-> mround(x, m),
                  key |-> <<"", "">>]
    /\ UNCHANGED <<ws, last, rec, setup, mode, step, faas, unirrig, out>>

CallLandUnitValue ==
    /\ call = NoCall
    /\ \E c \in CodeInputs(Classifications), sc \in CodeInputs(SubClasses) :
         call' = [op |-> "land", a |-> c.raw, b |-> sc.raw,
                  ret |-> calculate_land_unit_value(c.raw, sc.raw),
                  key |-> <<c.key, sc.key>>]
    /\ UNCHANGED <<ws, last, rec, setup, mode, step, faas, unirrig, out>>

CallImprovementUnitValue ==
    /\ call = NoCall
    /\ \E pc \in CodeInputs(ProductClasses) :
         call' = [op |-> "improvement", a |-> pc.raw, b |-> NoneV,
                  ret |-> calculate_improvement_unit_value(pc.raw),
                  key |-> <<pc.key, "">>]
    /\ UNCHANGED <<ws, last, rec, setup, mode, step, faas, unirrig, out>>

NextLookup == CallMround \/ CallLandUnitValue \/ CallImprovementUnitValue

SpecLookup == InitLookup /\ [][NextLookup]_vars

\* C8: for an integer amount x, mround(x, 10) is an integer multiple of 10
\* at most 5 away from x, a tie going to the multiple whose quotient by 10 is
\* even; mround is 0 when the amount or the multiple is zero or absent.
C8_MroundNearestMultiple ==
    call.op = "mround" =>
        IF ~Truthy(call.a) \/ ~Truthy(call.b) THEN call.ret = Num(0)
        ELSE /\ call.b = Num(10)
             /\ IsNum(call.ret) /\ call.ret.d = 1
             /\ call.ret.n % 10 = 0
             /\ Abs(call.ret.n - call.a.n) <= 5
             /\ (Abs(call.ret.n - call.a.n) = 5 => (call.ret.n \div 10) % 2 = 0)

C8_Witness ==
    /\ call.op = "mround" /\ call.a = Num(25) /\ call.b = Num(10)
    /\ call.ret = Num(20)

\* the price list of the land lookup, as <<classification, sub_class, price>>
LandPriceList ==
    {<<"COMMERCIAL", "C-1", 1400>>, <<"COMMERCIAL", "C-2", 1030>>,
     <<"COMMERCIAL", "C-3", 850>>, <<"COMMERCIAL", "C-4", 720>>,
     <<"RESIDENTIAL", "R-1", 760>>, <<"RESIDENTIAL", "R-2", 610>>,
     <<"RESIDENTIAL", "R-3", 470>>, <<"RESIDENTIAL", "R-4", 280>>,
     <<"RESIDENTIAL", "R-5", 200>>,
     <<"COCAL", "1", 93830>>, <<"COCAL", "2", 84500>>, <<"COCAL", "3", 76130>>,
     <<"IRRIGATED", "1", 188760>>, <<"IRRIGATED", "2", 174390>>,
     <<"IRRIGATED", "3", 126950>>,
     <<"UNIRRIGATED", "1", 82450>>, <<"UNIRRIGATED", "2", 75070>>,
     <<"UNIRRIGATED", "3", 52590>>}

FlatLandPrices ==
    {<<"UPLAND", 28540>>, <<"ORCHARD", 44100>>, <<"COGON LAND", 46460>>,
     <<"NIPA LAND", 55070>>, <<"FOREST LAND", 59660>>, <<"FISHPOND", 218240>>}

\* C9: whatever the spelling (case, surrounding blanks) of the two codes,
\* calculate_land_unit_value returns the listed price of a known
\* (classification, sub_class) pair, the flat price of a flat classification
\* for every sub_class (empty and absent included), and None (never zero) for
\* an unknown classification or an unknown sub_class.
C9_LandUnitValue ==
    call.op = "land" =>
        LET c == call.key[1]
            sc == call.key[2]
        IN  IF \E f \in FlatLandPrices : f[1] = c
            THEN call.ret = Num((CHOOSE f \in FlatLandPrices : f[1] = c)[2])
            ELSE IF \E e \in LandPriceList : e[1] = c /\ e[2] = sc
            THEN call.ret =
                   Num((CHOOSE e \in LandPriceList : e[1] = c /\ e[2] = sc)[3])
            ELSE call.ret = NoneV

C9_Witness ==
    /\ call.op = "land"
    /\ call.a = Str(<<" ","r","e","s","i","d","e","n","t","i","a","l"," ","\n">>)
    /\ call.b = Str(<<"r","-","1">>)
    /\ call.ret = Num(760)


(***************************************************************************)
(* Spec: the command line entry point on records drawn from small sets     *)
(***************************************************************************)
MaxLong == 5
MaxShort == 2

TextFields ==
    {"arf_no", "oct_tct_no", "cln", "owner_name", "owner_address",
     "administrator_name", "administrator_address", "property_location",
     "property_municipality", "property_barangay", "property_province",
     "north_boundary", "east_boundary", "west_boundary", "south_boundary",
     "previous_td_no", "previous_owner", "effectivity_year", "taxability",
     "owner_administrator", "memoranda_code", "memoranda_paragraph"}
AmountFields == {"previous_av_land", "previous_av_improvements"}
ListFields ==
    {"land_appraisals_json", "improvements_json", "market_values_json",
     "assessments_json"}

TextValues == {NoneV, EmptyStr, Str(<<"N","o","n","e">>), Str(<<"a","b">>)}
AmountValues == {NoneV, EmptyStr, Num(1000), Str(<<"1",",","2","5","0",".","5">>), Str(<<"n","/","a">>)}
PinValues ==
    {NoneV, EmptyStr, Str(<<"0","3","0","-","0","1","-","0","0","8">>),
     Str(<<"0","3","0","-","0","1","-","0","0","8","-","1","2","-","0","4","5">>), Str(<<"1","-","2","-","3","-","4","-","5","-","6">>)}

LandEntry(classification, sub_class, area) ==
    [classification |-> classification, sub_class |-> sub_class, area |-> area]
LandC1 == LandEntry(Str(<<"C","O","M","M","E","R","C","I","A","L">>), Str(<<"C","-","1">>), Num(2))
LandUnknown == LandEntry(Str(<<"r","e","s","i","d","e","n","t","i","a","l"," ">>), Str(<<"r","-","9">>), Num(1))
LandHalf == LandEntry(Str(<<"C","o","m","m","e","r","c","i","a","l">>), Str(<<"c","-","3">>), Str(<<"0",".","5">>))
LandNoArea == LandEntry(Str(<<"U","P","L","A","N","D">>), NoneV, NoneV)
LandBig == LandEntry(Str(<<" ","r","e","s","i","d","e","n","t","i","a","l">>), Str(<<"R","-","1">>), Str(<<"1",",","0","0","0">>))
LandNeg == LandEntry(Str(<<"C","O","M","M","E","R","C","I","A","L">>), Str(<<"C","-","1">>), Num(-2))
LandKinds == {LandC1, LandUnknown, LandHalf, LandNoArea, LandBig, LandNeg}

ImprovementEntry(product_class, improvement_qty, unit_value_improvement) ==
    [product_class |-> product_class, improvement_qty |-> improvement_qty,
     unit_value_improvement |-> unit_value_improvement]
ImprMango == ImprovementEntry(Str(<<"M","A","N","G","O">>), Num(3), NoneV)
ImprBanana == ImprovementEntry(Str(<<"B","a","n","a","n","a">>), Num(1), EmptyStr)
ImprTableWins == ImprovementEntry(Str(<<"m","a","n","g","o"," ">>), Str(<<"2">>), Num(99))
ImprRaw15 == ImprovementEntry(Str(<<"N","A","R","R","A">>), Num(1), Num(15))
ImprRaw4 == ImprovementEntry(Str(<<"N","A","R","R","A">>), Num(1), Str(<<"4">>))
ImprNoQty == ImprovementEntry(Str(<<"B","A","N","A","N","A">>), Num(0), NoneV)
ImprNoUnit == ImprovementEntry(Str(<<"N","A","R","R","A">>), Num(2), NoneV)
ImprBadUnit == ImprovementEntry(Str(<<"N","A","R","R","A">>), Num(2), Str(<<"n","/","a">>))
ImprKinds ==
    {ImprMango, ImprBanana, ImprTableWins, ImprRaw15, ImprRaw4, ImprNoQty,
     ImprNoUnit, ImprBadUnit}

MarketValueEntry(adj_factor, percent_adjustment) ==
    [adj_factor |-> adj_factor, percent_adjustment |-> percent_adjustment]
MvPlain == MarketValueEntry(NoneV, NoneV)
MvHalf == MarketValueEntry(Str(<<"1","0",","," ","2","0",",","3","0">>), Num(50))
MvOne == MarketValueEntry(Str(<<"5">>), Str(<<"1">>))
MvKinds == {MvPlain, MvHalf, MvOne}

AssessmentEntry(kind, actual_use, assessment_level) ==
    [kind |-> kind, actual_use |-> actual_use, assessment_level |-> assessment_level]
AsLand == AssessmentEntry(Str(<<"L","A","N","D">>), Str(<<"R","E","S">>), Num(20))
AsBlank == AssessmentEntry(NoneV, EmptyStr, NoneV)
AsOne == AssessmentEntry(Str(<<"I","M","P","R">>), NoneV, Str(<<"1">>))
AsKinds == {AsLand, AsBlank, AsOne}

SeqsUpTo(S, n) == UNION {[1..k -> S] : k \in 0..n}

\* lists of up to MaxLong entries, at most one of them without a market value
LongLists(valued, zero) ==
    {l \in SeqsUpTo({valued, zero}, MaxLong) :
        Cardinality({i \in 1..Len(l) : l[i] = zero}) <= 1}

Repeat(x, n) == [i \in 1..n |-> x]

ListsRecord(land, impr, mv, as) ==
    [land_appraisals_json |-> JsonText(land), improvements_json |-> JsonText(impr),
     market_values_json |-> JsonText(mv), assessments_json |-> JsonText(as)]

\* a row of faas_records with the four lists given
RecordWith(lists) ==
    [f \in TextFields \cup AmountFields \cup {"pin"} \cup ListFields |->
        IF f \in ListFields THEN lists[f]
        ELSE IF f \in AmountFields THEN Num(1000)
        ELSE IF f = "pin" THEN Str(<<"0","3","0","-","0","1","-","0","0","8","-","1","2","-","0","4","5">>)
        ELSE Str(<<"v">>)]

BaseRecord ==
    RecordWith(ListsRecord(<<LandC1>>, <<ImprMango>>, <<MvHalf>>, <<AsLand, AsLand>>))

\* the rows the runs are made on
ScalarRecords ==
    {[BaseRecord EXCEPT ![f] = v] : f \in TextFields, v \in TextValues}
    \cup {[BaseRecord EXCEPT ![f] = v] : f \in AmountFields, v \in AmountValues}
    \cup {[BaseRecord EXCEPT !["pin"] = v] : v \in PinValues}

JsonRecords ==
    {[BaseRecord EXCEPT ![f] = v] :
        f \in ListFields, v \in {NoneV, EmptyStr, MalformedJson}}

LongRecords ==
    {RecordWith(ListsRecord(land, impr, <<MvHalf>>, Repeat(AsLand, MaxRows))) :
        land \in LongLists(LandC1, LandUnknown),
        impr \in LongLists(ImprMango, ImprNoQty)}

KindRecords ==
    {RecordWith(ListsRecord(land, <<ImprMango>>, <<MvHalf>>, <<AsLand, AsLand>>)) :
        land \in SeqsUpTo(LandKinds, MaxShort)}
    \cup {RecordWith(ListsRecord(<<LandC1>>, impr, <<MvHalf, MvOne>>, <<AsLand, AsLand>>)) :
        impr \in SeqsUpTo(ImprKinds, MaxShort)}
    \cup {RecordWith(ListsRecord(<<LandC1, LandHalf>>, <<ImprBanana, ImprRaw15>>, mv,
                                 <<AsLand, AsOne>>)) :
        mv \in SeqsUpTo(MvKinds, MaxShort) \cup {Repeat(MvHalf, MaxLong)}}
    \cup {RecordWith(ListsRecord(<<LandC1, LandHalf>>, <<ImprBanana, ImprRaw15>>,
                                 <<MvHalf, MvOne>>, as)) :
        as \in SeqsUpTo(AsKinds, MaxShort) \cup {Repeat(AsLand, MaxLong)}}

Records == ScalarRecords \cup JsonRecords \cup LongRecords \cup KindRecords

Environments ==
    [faas_template : BOOLEAN, unirrig_template : {"missing", "one_sheet", "two_sheets"},
     faas_save_ok : BOOLEAN, unirrig_save_ok : BOOLEAN]

BaseEnvironment ==
    [faas_template |-> TRUE, unirrig_template |-> "two_sheets",
     faas_save_ok |-> TRUE, unirrig_save_ok |-> TRUE]

Modes == {"faas", "unirrig", "both"}

NotRun == Outcome(NoneV, NoneV, <<>>, <<>>, NoSheets, NoSheets)

NoOutput == [exit_code |-> -1]

Init ==
    /\ call = NoneV /\ ws = NoneV /\ last = NoneV
    /\ \/ rec \in Records /\ setup = BaseEnvironment /\ mode = "both"
       \/ rec \in {NoneV, BaseRecord} /\ setup \in Environments /\ mode \in Modes
    /\ step = "start"
    /\ faas = NotRun
    /\ unirrig = NotRun
    /\ out = NoOutput

\* main: result, error = generator.generate_faas_excel(args.record_id)
RunFaas ==
    /\ step = "start" /\ mode \in {"faas", "both"}
    /\ faas' = generate_faas_excel(rec, setup)
    /\ step' = IF mode = "both" THEN "faas_done" ELSE "generated"
    /\ UNCHANGED <<call, ws, last, rec, setup, mode, unirrig, out>>

\* main: result, error = generator.generate_unirrig_excel(args.record_id)
RunUnirrig ==
    /\ \/ step = "start" /\ mode = "unirrig"
       \/ step = "faas_done"
    /\ unirrig' = generate_unirrig_excel(rec, setup)
    /\ step' = "generated"
    /\ UNCHANGED <<call, ws, last, rec, setup, mode, faas, out>>

\* print(json.dumps(result if result else {"success": False, "error": error}))
\* sys.exit(0 if result else 1)
ReportOne(o) ==
    IF Truthy(o.result)
    THEN [printed |-> o.result, exit_code |-> 0]
    ELSE [printed |-> [success |-> FALSE, error |-> o.error], exit_code |-> 1]

\* (variant) overall success asks for both forms
ReportBothStrict(f, u) ==
    LET is_both_success == Truthy(f.result) /\ Truthy(u.result)
    IN  [printed |->
            [success |-> is_both_success,
             both_success |-> is_both_success,
             faas |-> f.result,
             unirrig |-> u.result,
             faas_error |-> IF ~Truthy(f.result) THEN f.error ELSE NoneV,
             unirrig_error |-> IF ~Truthy(u.result) THEN u.error ELSE NoneV],
         exit_code |-> IF is_both_success THEN 0 ELSE 1]

\* the output and exit code of --type both
ReportBoth(f, u) ==
    LET is_faas_success == Truthy(f.result)
    IN  [printed |->
            [success |-> is_faas_success,
             both_success |-> is_faas_success /\ Truthy(u.result),
             faas |-> f.result,
             unirrig |-> u.result,
             faas_error |-> IF ~Truthy(f.result) THEN f.error ELSE NoneV,
             unirrig_error |-> IF ~Truthy(u.result) THEN u.error ELSE NoneV],
         exit_code |-> IF is_faas_success THEN 0 ELSE 1]

Report ==
    /\ step = "generated"
    /\ out' = CASE mode = "faas" -> ReportOne(faas)
                [] mode = "unirrig" -> ReportOne(unirrig)
                [] mode = "both" -> ReportBoth(faas, unirrig)
    /\ step' = "exit"
    /\ UNCHANGED <<call, ws, last, rec, setup, mode, faas, unirrig>>

Next == RunFaas \/ RunUnirrig \/ Report

Spec == Init /\ [][Next]_vars

(***************************************************************************)
(* Properties of the generation passes                                     *)
(***************************************************************************)
\* the call reached the given stage
Ran(o, stage) == \E i \in 1..Len(o.stages) : o.stages[i] = stage

\* the call returned a result
Succeeded(o) == Truthy(o.result)

\* '', None or the text "None"
Blank(value) ==
    \/ value = EmptyStr
    \/ IsNone(value)
    \/ IsStr(value) /\ value.s = <<"N", "o", "n", "e">>

\* the cell a mapping entry is routed to
RoutedCell(template, address) == WriteTarget(template, ResolveAddress(address))

\* every filled cell of the template that a blank value is routed to is as
\* the template had it
KeptWhereBlank(template, sheet, mapping) ==
    \A i \in 1..Len(mapping) :
        (/\ Blank(mapping[i][2])
         /\ CellValue(template, RoutedCell(template, mapping[i][1])) # NoneV)
        => CellValue(sheet, RoutedCell(template, mapping[i][1]))
               = CellValue(template, RoutedCell(template, mapping[i][1]))

\* C1: in every generation pass of Form A and of Form B, a cell that already
\* holds a value or formula keeps its content when the value routed to it is
\* empty (''), absent (None) or the text "None"
C1_BlankNeverOverwrites ==
    /\ Ran(faas, "write")
       => KeptWhereBlank(FaasTemplate, faas.sheets[1], faas.mapping)
    /\ Ran(unirrig, "persist")
       => KeptWhereBlank(UnirrigSheet1Template, unirrig.sheets[1], unirrig.mapping.um)

\* the lists of the record a call was made on
ListOf(key) == LoadList(rec, key).value

\* the first up to n nonzero values of a sequence, in order
FirstNonzero(mvs, n) ==
    SubSeq(SelectSeq(mvs, Truthy), 1, Min(n, Len(SelectSeq(mvs, Truthy))))

\* the market value Form A gives a Land entry and an Improvement entry
FaasLandMv(item) ==
    DictGet(FaasLandEntry(<<>>, item, 0), Addr("G", FaasLandRow), Num(0))
FaasImprovementMv(item) ==
    DictGet(FaasImprovementEntry(<<>>, item, 0), Addr("G", FaasImprRow), Num(0))

\* Land market values followed by Improvement market values, of the first
\* `cap` entries of each list
FaasSequence(cap) ==
    [k \in 1..Min(cap, Len(ListOf("land_appraisals_json"))) |->
        FaasLandMv(ListOf("land_appraisals_json")[k])]
    \o [k \in 1..Min(cap, Len(ListOf("improvements_json"))) |->
        FaasImprovementMv(ListOf("improvements_json")[k])]
UnirrigSequence(cap) ==
    [k \in 1..Min(cap, Len(ListOf("land_appraisals_json"))) |->
        UnirrigLandMv(ListOf("land_appraisals_json")[k])]
    \o [k \in 1..Min(cap, Len(ListOf("improvements_json"))) |->
        UnirrigImprovementMv(ListOf("improvements_json")[k])]

\* the entries consolidation emitted: the A cells of rows 36.. in Form A,
\* the base values behind adjusted_mvs in Form B
FaasConsolidated ==
    [k \in 1..Cardinality({r \in 0..(MaxRows + 2) :
                              DictHas(faas.mapping, Addr("A", FaasMvRow + r))}) |->
        DictGet(faas.mapping, Addr("A", FaasMvRow + k - 1), NoneV)]
UnirrigConsolidated ==
    SubSeq(unirrig.mapping.base_mvs, 1, Len(unirrig.mapping.adjusted_mvs))

\* consolidation read over the first `cap` entries of each list
ConsolidatesFirstFour(cap) ==
    /\ Len(FaasConsolidated) <= MaxRows
    /\ Len(UnirrigConsolidated) <= MaxRows
    /\ FaasConsolidated = FirstNonzero(FaasSequence(cap), MaxRows)
    /\ UnirrigConsolidated = FirstNonzero(UnirrigSequence(cap), MaxRows)
    /\ \A r \in MaxRows..(MaxRows + 2), c \in {"A", "C", "D", "G"} :
           ~DictHas(faas.mapping, Addr(c, FaasMvRow + r))

\* C3: whatever the numbers of Land and Improvement entries, consolidation
\* emits at most 4 entries, exactly the first nonzero market values of the
\* Land values followed by the Improvement values, and Form A fills rows
\* 36..39 only; the sequence is read either over all the entries or over the
\* entries each form has rows for
C3_ConsolidatesFirstFour ==
    (Ran(faas, "persist") /\ Ran(unirrig, "persist"))
    => \/ ConsolidatesFirstFour(Len(ListOf("land_appraisals_json"))
                                + Len(ListOf("improvements_json")))
       \/ ConsolidatesFirstFour(MaxRows)

\* C4: for every slot i in 0..3 the adjusted market value Form B pairs with
\* assessment row i is the value Form A places in G(36+i), and a slot one
\* form leaves out the other leaves out too
C4_SameConsolidatedValues ==
    (Ran(faas, "persist") /\ Ran(unirrig, "persist"))
    => \A i \in 0..(MaxRows - 1) :
           IF i < Len(unirrig.mapping.adjusted_mvs)
           THEN DictGet(faas.mapping, Addr("G", FaasMvRow + i), NoneV)
                    = unirrig.mapping.adjusted_mvs[i + 1]
           ELSE ~DictHas(faas.mapping, Addr("G", FaasMvRow + i))

\* C5: in 'both' mode both generations are attempted, success tells that Form
\* A succeeded, both_success that both did, an error is reported exactly for
\* the form that failed, and the exit code is 0 exactly when Form A succeeded
C5_BothModeReport ==
    (mode = "both" /\ step = "exit")
    => /\ Ran(faas, "load") /\ Ran(unirrig, "load")
       /\ out.printed.success = Succeeded(faas)
       /\ out.printed.both_success = (Succeeded(faas) /\ Succeeded(unirrig))
       /\ (out.printed.faas_error # NoneV) = ~Succeeded(faas)
       /\ (out.printed.unirrig_error # NoneV) = ~Succeeded(unirrig)
       /\ (out.exit_code = 0) = Succeeded(faas)

\* Form A succeeds and the Form B template is missing: success, not
\* both_success, unirrig_error set, exit code 0
C5_Witness ==
    /\ mode = "both" /\ step = "exit"
    /\ Succeeded(faas) /\ ~Succeeded(unirrig)
    /\ setup.unirrig_template = "missing"
    /\ out.printed.success /\ ~out.printed.both_success
    /\ out.printed.unirrig_error # NoneV /\ out.printed.faas_error = NoneV
    /\ out.exit_code = 0

\* C6: when the JSON text of one of the four lists is absent, empty or
\* malformed, and nothing else is wrong, both generation calls go on to map,
\* write and persist and return success
C6_ListsNeverFatal ==
    (/\ step = "exit" /\ mode = "both" /\ setup = BaseEnvironment
     /\ rec # NoneV
     /\ IsStr(rec.pin)
     /\ \E f \in ListFields : rec[f] \in {NoneV, EmptyStr, MalformedJson})
    => /\ Succeeded(faas) /\ Ran(faas, "persist")
       /\ Succeeded(unirrig) /\ Ran(unirrig, "persist")

\* the number of '-'-separated segments of a PIN, none for an absent one
PinSegments(pin) == IF IsStr(pin) THEN Len(Split(pin.s, "-")) ELSE 0

\* C7: for a record whose PIN has fewer than 5 segments, an empty and an
\* absent PIN included, Form B writes neither K19 nor K20 and still succeeds
C7_ShortPinTolerated ==
    (/\ Ran(unirrig, "load") /\ setup = BaseEnvironment
     /\ rec # NoneV
     /\ ~AnyError(rec)
     /\ PinSegments(rec.pin) < 5)
    => /\ Succeeded(unirrig)
       /\ \A r \in {19, 20} :
              CellValue(unirrig.sheets[1], ResolveAddress(Addr("K", r)))
                  = CellValue(UnirrigSheet1Template, ResolveAddress(Addr("K", r)))

\* the table price of a product class, None for a class the table lacks
KnownPrice(product_class) ==
    IF Truthy(product_class)
       /\ \E e \in ImprovementTable : e[1] = Join(Strip(Upper(product_class.s)))
    THEN Num((CHOOSE e \in ImprovementTable :
                  e[1] = Join(Strip(Upper(product_class.s))))[2])
    ELSE NoneV

\* the unit value the claim expects for an entry
ExpectedUnitValue(item) ==
    IF KnownPrice(item.product_class) # NoneV THEN KnownPrice(item.product_class)
    ELSE IF Truthy(item.unit_value_improvement)
    THEN safe_float(item.unit_value_improvement, Num(0))
    ELSE NoneV

\* the unit value and market value cells of Improvement row i in each form
FaasUnitCell(i) == DictGet(faas.mapping, Addr("E", FaasImprRow + i), NoneV)
FaasMvCell(i) == DictGet(faas.mapping, Addr("G", FaasImprRow + i), NoneV)
UnirrigUnitCell(i) ==
    CellValue(unirrig.sheets[1], ResolveAddress(Addr("J", UnirrigImprRow + i)))
UnirrigMvCell(i) ==
    CellValue(unirrig.sheets[1], ResolveAddress(Addr("K", UnirrigImprRow + i)))

\* C10: for every Improvement entry either mapper processes, the unit value
\* used is the table price of the normalised product_class when the class is
\* known, whatever raw unit value is supplied; for an unknown class the
\* lookup yields None, not zero, and the raw unit_value_improvement is used
\* when one is supplied; without one no unit value and no market value is
\* produced
C10_ImprovementUnitValue ==
    (Ran(faas, "persist") /\ Ran(unirrig, "persist"))
    => \A i \in 0..(Min(MaxRows, Len(ListOf("improvements_json"))) - 1) :
           LET item == ListOf("improvements_json")[i + 1]
               unit == ExpectedUnitValue(item)
           IN  /\ KnownPrice(item.product_class) = NoneV
                  => calculate_improvement_unit_value(item.product_class) = NoneV
               /\ IF Truthy(unit)
                  THEN FaasUnitCell(i) = unit /\ UnirrigUnitCell(i) = unit
                  ELSE /\ FaasUnitCell(i) = NoneV /\ FaasMvCell(i) = NoneV
                       /\ UnirrigUnitCell(i) = Formula /\ UnirrigMvCell(i) = Formula

\* an entry of a known class with a raw value, then one of an unknown class
\* with a raw value: 1750 from the table, 15 from the entry, in both forms
C10_Witness ==
    /\ Ran(faas, "persist") /\ Ran(unirrig, "persist")
    /\ ListOf("improvements_json") = <<ImprTableWins, ImprRaw15>>
    /\ FaasUnitCell(0) = Num(1750) /\ UnirrigUnitCell(0) = Num(1750)
    /\ FaasUnitCell(1) = Num(15) /\ UnirrigUnitCell(1) = Num(15)

\* v is the multiple of 10 nearest to the amount x, a tie going to the
\* multiple whose quotient by 10 is even
RoundedTo10(v, x) ==
    /\ IsNum(v) /\ v.d = 1 /\ v.n % RoundTo = 0
    /\ 2 * Abs(v.n * x.d - x.n) <= RoundTo * x.d
    /\ (2 * Abs(v.n * x.d - x.n) = RoundTo * x.d => (v.n \div RoundTo) % 2 = 0)

\* the cell of the Form A sheet at an address, and the one of its template
FaasCell(address) == CellValue(faas.sheets[1], ResolveAddress(address))
FaasTemplateCell(address) == CellValue(FaasTemplate, ResolveAddress(address))

\* C11: in Form A, for each of the first 4 Land entries at index i, the
\* market value cell G(22+i) is set to area * unit value rounded to the
\* nearest multiple of 10 exactly when the looked-up unit value is present
\* and the area is above zero; otherwise it is not set
C11_LandMarketValue ==
    Ran(faas, "write")
    => \A i \in 0..(Min(MaxRows, Len(ListOf("land_appraisals_json"))) - 1) :
           LET item == ListOf("land_appraisals_json")[i + 1]
               unit == calculate_land_unit_value(item.classification, item.sub_class)
               area == safe_float(item.area, Num(0))
               cell == Addr("G", FaasLandRow + i)
           IN  IF unit # NoneV /\ area.n > 0
               THEN /\ DictHas(faas.mapping, cell)
                    /\ RoundedTo10(DictGet(faas.mapping, cell, NoneV), RatMul(area, unit))
                    /\ FaasCell(cell) = DictGet(faas.mapping, cell, NoneV)
               ELSE /\ ~DictHas(faas.mapping, cell)
                    /\ FaasCell(cell) = FaasTemplateCell(cell)

\* COMMERCIAL / C-1 / area 2: unit value 1400, market value 2800; and
\* Commercial / c-3 / area 0.5: 425 rounded to 420
C11_Witness ==
    /\ Ran(faas, "persist")
    /\ ListOf("land_appraisals_json") = <<LandC1, LandHalf>>
    /\ DictGet(faas.mapping, Addr("E", FaasLandRow), NoneV) = Num(1400)
    /\ FaasCell(Addr("G", FaasLandRow)) = Num(2800)
    /\ FaasCell(Addr("G", FaasLandRow + 1)) = Num(420)

\* the percent adjustment of the i-th Market Value entry, 0 without one
PercentOfSlot(i) ==
    IF i < Len(ListOf("market_values_json"))
    THEN safe_float(ListOf("market_values_json")[i + 1].percent_adjustment, Num(0))
    ELSE Num(0)

\* v is the adjusted value of the base value b under the percent p: b * p/100
\* rounded to a multiple of 10, b itself when that is zero or p is not given
AdjustedFrom(v, b, p) ==
    IF Truthy(p)
    THEN IF RoundedTo10(Num(0), RatMul(b, Percent(p)))
         THEN v = b
         ELSE RoundedTo10(v, RatMul(b, Percent(p)))
    ELSE v = b

\* C12: in Form A, for every slot i in 0..3 holding the base value b, G(36+i)
\* is b * p/100 rounded to a multiple of 10 for the percent adjustment p of
\* the i-th Market Value entry only, b itself when that rounded amount is
\* zero, and b unmodified without an i-th entry or a percent adjustment
C12_AdjustedValue ==
    Ran(faas, "write")
    => \A i \in 0..(MaxRows - 1) :
           DictHas(faas.mapping, Addr("A", FaasMvRow + i))
           => AdjustedFrom(DictGet(faas.mapping, Addr("G", FaasMvRow + i), NoneV),
                           DictGet(faas.mapping, Addr("A", FaasMvRow + i), NoneV),
                           PercentOfSlot(i))

\* the assessment level of the i-th Assessment entry
LevelOfSlot(i) ==
    safe_float(ListOf("assessments_json")[i + 1].assessment_level, Num(0))

\* the assessed value cell holds mv * level/100 rounded to a multiple of 10
\* when both are present and that amount is not zero, and is as the template
\* has it in every other case
AssessedFrom(cell, template_cell, mv, level) ==
    IF /\ Truthy(mv) /\ Truthy(level)
       /\ ~RoundedTo10(Num(0), RatMul(mv, Percent(level)))
    THEN RoundedTo10(cell, RatMul(mv, Percent(level)))
    ELSE cell = template_cell

\* the consolidated market value each form holds in slot i
FaasSlotValue(i) == DictGet(faas.mapping, Addr("G", FaasMvRow + i), Num(0))
UnirrigSlotValue(i) ==
    IF i < Len(unirrig.mapping.adjusted_mvs)
    THEN unirrig.mapping.adjusted_mvs[i + 1] ELSE Num(0)

\* C13: for each of the first 4 Assessment entries at index i, in both
\* layouts, the assessed value cell (Form A G(43+i), Form B Sheet2 K(54+i))
\* receives the consolidated market value of slot i times the assessment
\* level / 100, rounded to a multiple of 10, exactly when both are present
\* and the result is not zero, and is not written at all in any other case
C13_AssessedValue ==
    /\ Ran(faas, "write")
       => \A i \in 0..(Min(MaxRows, Len(ListOf("assessments_json"))) - 1) :
              AssessedFrom(FaasCell(Addr("G", FaasAssessRow + i)),
                           FaasTemplateCell(Addr("G", FaasAssessRow + i)),
                           FaasSlotValue(i), LevelOfSlot(i))
    /\ (Ran(unirrig, "persist") /\ Len(unirrig.sheets) = 2)
       => \A i \in 0..(Min(MaxRows, Len(ListOf("assessments_json"))) - 1) :
              AssessedFrom(CellValue(unirrig.sheets[2],
                                     ResolveAddress(Addr("K", UnirrigAssessRow + i))),
                           CellValue(UnirrigSheet2Template,
                                     ResolveAddress(Addr("K", UnirrigAssessRow + i))),
                           UnirrigSlotValue(i), LevelOfSlot(i))

\* a number is a non-negative integer multiple of 10
TensOrNoNumber(v) == IsNum(v) => (v.d = 1 /\ v.n >= 0 /\ v.n % RoundTo = 0)

\* no Land entry has a negative area, no Improvement entry a negative quantity
NonNegativeEntries ==
    /\ \A k \in 1..Len(ListOf("land_appraisals_json")) :
           safe_float(ListOf("land_appraisals_json")[k].area, Num(0)).n >= 0
    /\ \A k \in 1..Len(ListOf("improvements_json")) :
           safe_int(ListOf("improvements_json")[k].improvement_qty, Num(0)).n >= 0

\* the cells of derived monetary values: in Form A the market values of the
\* Land and Improvement rows, the consolidated rows (base and adjusted) and
\* the assessment rows (market value and assessed value)
FaasMoneyCells ==
    {Addr("G", FaasLandRow + i) : i \in 0..(MaxRows - 1)}
    \cup {Addr("G", FaasImprRow + i) : i \in 0..(MaxRows - 1)}
    \cup {Addr(c, FaasMvRow + i) : c \in {"A", "G"}, i \in 0..(MaxRows - 1)}
    \cup {Addr(c, FaasAssessRow + i) : c \in {"C", "G"}, i \in 0..(MaxRows - 1)}
\* in Form B the market values of the Improvement rows on sheet one
UnirrigMoneyCells1 == {Addr("K", UnirrigImprRow + i) : i \in 0..(MaxRows - 1)}
\* and on sheet two the totals J36 and J37 and the assessment rows
UnirrigMoneyCells2 ==
    {Addr("J", TotalsRow), Addr("J", TotalsRow + 1)}
    \cup {Addr(c, UnirrigAssessRow + i) : c \in {"G", "K"}, i \in 0..(MaxRows - 1)}

\* C14: for a record with non-negative areas and quantities, every derived
\* monetary value either mapper writes to a cell (row market values,
\* consolidated and adjusted market values, assessed values, the totals J36
\* and J37) is a non-negative integer multiple of 10
C14_MoneyIsMultipleOfTen ==
    (rec # NoneV /\ ~AnyError(rec) /\ NonNegativeEntries)
    => /\ Ran(faas, "write")
          => \A a \in FaasMoneyCells : TensOrNoNumber(FaasCell(a))
       /\ Ran(unirrig, "persist")
          => \A a \in UnirrigMoneyCells1 :
                 TensOrNoNumber(CellValue(unirrig.sheets[1], ResolveAddress(a)))
       /\ (Ran(unirrig, "persist") /\ Len(unirrig.sheets) = 2)
          => \A a \in UnirrigMoneyCells2 :
                 TensOrNoNumber(CellValue(unirrig.sheets[2], ResolveAddress(a)))

\* the record with each of its four lists cut after the 4th entry
FirstFourOf(record) ==
    [f \in DOMAIN record |->
        IF f \in ListFields /\ record[f].t = "json"
        THEN JsonText(SubSeq(record[f].items, 1, Min(MaxRows, Len(record[f].items))))
        ELSE record[f]]

\* C15: two records with the same scalar fields and the same first 4 entries
\* of each of the four lists give the same cells in Form A and the same cells
\* on both sheets of Form B; stated of every record and the record cut after
\* the 4th entry of each list, which any two such records share
C15_BeyondFourIgnored ==
    rec # NoneV
    => /\ Ran(faas, "write")
          => faas.sheets = generate_faas_excel(FirstFourOf(rec), setup).sheets
       /\ Ran(unirrig, "persist")
          => unirrig.sheets = generate_unirrig_excel(FirstFourOf(rec), setup).sheets

\* the stages of a generation call, in order
Pipeline == <<"load", "validate", "map", "write", "persist", "report">>

\* a call that ran went through the stages in order, each once, up to the one
\* it stopped at, and returned either a result and no error (after the
\* output was persisted) or no result and an error text (nothing persisted
\* and no stage after the failing one)
LinearCall(o, template, found, template_found, save_ok) ==
    /\ Len(o.stages) >= 2 /\ Len(o.stages) <= Len(Pipeline)
    /\ o.stages = SubSeq(Pipeline, 1, Len(o.stages))
    /\ \/ Succeeded(o) /\ o.error = NoneV
       \/ o.result = NoneV /\ IsStr(o.error)
    /\ Succeeded(o)
       => /\ o.stages = Pipeline
          /\ found /\ template_found /\ save_ok
          /\ o.saved = o.sheets /\ o.saved # NoSheets
    /\ ~Succeeded(o)
       => /\ ~Ran(o, "report")
          /\ o.saved = NoSheets
          /\ ~Ran(o, "write") => o.sheets \in {NoSheets, template}
    /\ (~found \/ ~template_found)
       => ~Succeeded(o) /\ ~Ran(o, "map") /\ o.sheets = NoSheets
    /\ (found /\ template_found /\ ~save_ok /\ Ran(o, "persist")) => ~Succeeded(o)

PassDone == call.t = "pass"

\* the cell a coordinate of the sheet is routed to
TargetOf(rc) ==
    IF \E r \in ws.merged : InRange(rc, r)
    THEN <<(CHOOSE r \in ws.merged : InRange(rc, r)).min_row,
           (CHOOSE r \in ws.merged : InRange(rc, r)).min_col>>
    ELSE rc

\* C17: a write to an address that cannot be resolved changes no cell of the
\* sheet and raises nothing; in a pass over a mapping that holds such an
\* address every other entry is still written, and the call persists the
\* workbook and reports success
C17_BadAddressSkipped ==
    /\ (last.n > 0 /\ last.coord = InvalidAddress /\ ~PassDone)
       => ws.cells = last.before
    /\ PassDone
       => /\ ws.cells[TargetOf(call.coords[2])] = Num(7)
          /\ TargetOf(call.coords[1]) # TargetOf(call.coords[2])
             => ws.cells[TargetOf(call.coords[1])] = Str(<<"x">>)
          /\ \A rc \in Grid \ {TargetOf(call.coords[1]), TargetOf(call.coords[2])} :
                 ws.cells[rc] = last.before[rc]
          /\ Ran(faas, "persist")
          /\ call.save_ok
             => Succeeded(faas) /\ Ran(faas, "report") /\ faas.saved = <<ws>>

\* a pass wrote the entry after the unresolvable address to another cell
\* than the entry before it, and the workbook was saved
C17_Witness ==
    /\ PassDone
    /\ TargetOf(call.coords[1]) # TargetOf(call.coords[2])
    /\ ws.cells[TargetOf(call.coords[1])] = Str(<<"x">>)
    /\ ws.cells[TargetOf(call.coords[2])] = Num(7)
    /\ last.before[TargetOf(call.coords[2])] # Num(7)
    /\ Succeeded(faas) /\ faas.saved = <<ws>>

\* some cell of a row of Form B sheet one, the unit value cell apart, holds
\* the amount rounded to a multiple of 10
RowHoldsRounded(row, unit_col, amount) ==
    \E rc \in DOMAIN unirrig.sheets[1].cells :
        /\ rc[1] = row /\ rc # ResolveAddress(Addr(unit_col, row))
        /\ RoundedTo10(unirrig.sheets[1].cells[rc], amount)

\* C18: in Form B, for each of the first 4 Land entries (rows 28..31) and
\* each of the first 4 Improvement entries (rows 42..45) that has a unit
\* value and a positive area or quantity, sheet one receives the unit value
\* of the row and the computed market value of the row
C18_UnirrigRowValues ==
    Ran(unirrig, "persist")
    => /\ \A i \in 0..(Min(MaxRows, Len(ListOf("land_appraisals_json"))) - 1) :
              LET item == ListOf("land_appraisals_json")[i + 1]
                  unit == calculate_land_unit_value(item.classification, item.sub_class)
                  area == safe_float(item.area, Num(0))
              IN  (unit # NoneV /\ area.n > 0)
                  => /\ CellValue(unirrig.sheets[1],
                                  ResolveAddress(Addr("I", UnirrigLandRow + i))) = unit
                     /\ RowHoldsRounded(UnirrigLandRow + i, "I", RatMul(area, unit))
       /\ \A i \in 0..(Min(MaxRows, Len(ListOf("improvements_json"))) - 1) :
              LET item == ListOf("improvements_json")[i + 1]
                  unit == ExpectedUnitValue(item)
                  qty  == safe_int(item.improvement_qty, Num(0))
              IN  (Truthy(unit) /\ qty.n > 0)
                  => /\ UnirrigUnitCell(i) = unit
                     /\ RowHoldsRounded(UnirrigImprRow + i, "J", RatMul(qty, unit))

(***************************************************************************)
(* backend/python/pdf_converter.py: the conversion of a workbook to PDF    *)
(*                                                                         *)
(* The output directory is a set of files [name, made_by, ctime]; a name   *)
(* is a sequence of characters; the clock counts seconds and starts at 0,  *)
(* so a file made before the call has a negative ctime.  The converter is  *)
(* an external program: whether it is found, how it exits, under which     *)
(* name it writes and when the file shows up are chosen freely.            *)
(***************************************************************************)
EndsWith(s, suffix) ==
    /\ Len(s) >= Len(suffix)
    /\ SubSeq(s, Len(s) - Len(suffix) + 1, Len(s)) = suffix

\* str.replace(old, new) for a non-empty old
RECURSIVE Replace(_, _, _)
Replace(s, old, new) ==
    IF Len(s) < Len(old) THEN s
    ELSE IF SubSeq(s, 1, Len(old)) = old
         THEN new \o Replace(SubSeq(s, Len(old) + 1, Len(s)), old, new)
         ELSE <<Head(s)>> \o Replace(Tail(s), old, new)

DotXlsx == <<".", "x", "l", "s", "x">>
DotPdf == <<".", "p", "d", "f">>

\* for i in range(10)
MaxPolls == 10
\* time.time() - os.path.getctime(latest_pdf_path) < 20
RecentSeconds == 20

ExcelNames == {<<"a">> \o DotXlsx, <<"a", ".", "X", "L", "S", "X">>, <<"a", ".", "x", "l", "s">>}
PdfNames == {<<"a">> \o DotPdf, <<"b">> \o DotPdf}
ConverterNames == {<<"a">> \o DotPdf, <<"c">> \o DotPdf}
EarlierNames == PdfNames \cup ConverterNames
EarlierCtimes == {-15, -100}
ExcelPlaces == {"output_dir", "elsewhere", "missing"}

File(name, made_by, ctime) == [name |-> name, made_by |-> made_by, ctime |-> ctime]

\* the directories the call can start from: at most one PDF made earlier,
\* and the workbook itself when it lies in the output directory
EarlierFiles == {{}} \cup {{File(n, "earlier", c)} : n \in EarlierNames, c \in EarlierCtimes}

ExcelFiles(name, place) ==
    IF place = "output_dir" THEN {File(name, "excel", -100)} ELSE {}

\* os.path.exists(os.path.join(output_dir, name))
PathExists(dir, name) == \E f \in dir : f.name = name

\* the file the converter writes replaces a file of the same name
WriteFile(dir, f) == {g \in dir : g.name # f.name} \cup {f}

NoLocals == [i |-> 0, expected_pdf_path |-> <<>>, found |-> FALSE, now |-> 0]

NothingPending == [writes |-> FALSE, name |-> <<>>]

NotReturned == [returned |-> FALSE, success |-> FALSE, error |-> "",
                pdf_path |-> <<>>, printed |-> NoneV, exit_code |-> -1]

Returns(o, success, error, pdf_path) ==
    [o EXCEPT !.returned = TRUE, !.success = success, !.error = error,
              !.pdf_path = pdf_path]

InitPdf ==
    /\ \E en \in ExcelNames, ep \in ExcelPlaces, pn \in PdfNames :
         /\ call = [excel_path |-> en, excel_place |-> ep, pdf_path |-> pn]
         /\ \E e \in EarlierFiles : ws = e \cup ExcelFiles(en, ep)
    /\ last = NoLocals
    /\ setup = NothingPending
    /\ step = "main"
    /\ out = NotReturned
    /\ rec = NoneV /\ mode = "pdf" /\ faas = NoneV /\ unirrig = NoneV

\* main, lines 144-153: the input must exist and be named .xlsx
ValidateInput ==
    /\ step = "main"
    /\ IF call.excel_place = "missing"
       THEN /\ out' = [out EXCEPT !.printed = [success |-> FALSE, error |-> "Excel file not found"],
                                  !.exit_code = 1]
            /\ step' = "exit"
       ELSE IF ~EndsWith(Lower(call.excel_path), DotXlsx)
       THEN /\ out' = [out EXCEPT !.printed = [success |-> FALSE, error |-> "Input file must be .xlsx"],
                                  !.exit_code = 1]
            /\ step' = "exit"
       ELSE /\ out' = out
            /\ step' = "start"
    /\ UNCHANGED <<call, ws, last, rec, setup, mode, faas, unirrig>>

\* lines 45-47: libreoffice_exe = find_libreoffice()
FindLibreoffice ==
    /\ step = "start"
    /\ \E libreoffice_exe \in BOOLEAN :
         IF ~libreoffice_exe
         THEN /\ out' = Returns(out, FALSE, "LibreOffice not found", call.pdf_path)
              /\ step' = "returned"
         ELSE /\ out' = out
              /\ step' = "run"
    /\ UNCHANGED <<call, ws, last, rec, setup, mode, faas, unirrig>>

\* excel_filename.replace('.xlsx', '.pdf')
ExpectedPdfFilename(excel_filename) == Replace(excel_filename, DotXlsx, DotPdf)

RunResults == {"exit_0", "exit_1", "timeout", "error"}

\* lines 69-86 and 130-135: subprocess.run and what it leaves behind.  On
\* exit code 0 the converter has written its file, is still to write it, or
\* writes none.
RunConverter ==
    /\ step = "run"
    /\ \E result \in RunResults :
         CASE result = "exit_1" ->
                /\ out' = Returns(out, FALSE, "LibreOffice conversion failed", call.pdf_path)
                /\ step' = "returned"
                /\ UNCHANGED <<ws, last, setup>>
           [] result = "timeout" ->
                /\ out' = Returns(out, FALSE, "PDF conversion timeout", call.pdf_path)
                /\ step' = "returned"
                /\ UNCHANGED <<ws, last, setup>>
           [] result = "error" ->
                /\ out' = Returns(out, FALSE, "PDF conversion error", call.pdf_path)
                /\ step' = "returned"
                /\ UNCHANGED <<ws, last, setup>>
           [] result = "exit_0" ->
                /\ out' = out
                /\ step' = "polling"
                /\ last' = [last EXCEPT !.expected_pdf_path = ExpectedPdfFilename(call.excel_path)]
                /\ \/ \E n \in ConverterNames :
                        /\ ws' = WriteFile(ws, File(n, "conversion", last.now))
                        /\ setup' = NothingPending
                   \/ \E n \in ConverterNames :
                        /\ ws' = ws
                        /\ setup' = [writes |-> TRUE, name |-> n]
                   \/ ws' = ws /\ setup' = NothingPending
    /\ UNCHANGED <<call, rec, mode, faas, unirrig>>

\* the converter's file shows up while the caller is waiting for it
ConverterWrites ==
    /\ step = "polling"
    /\ setup.writes
    /\ ws' = WriteFile(ws, File(setup.name, "conversion", last.now))
    /\ setup' = NothingPending
    /\ UNCHANGED <<call, last, rec, mode, step, faas, unirrig, out>>

\* [f for f in os.listdir(output_dir) if f.endswith('.pdf')]
PdfFilesIn(dir) == {f \in dir : EndsWith(f.name, DotPdf)}

\* max(pdf_files, key=getctime)
LatestPdfs(dir) == {f \in PdfFilesIn(dir) : \A g \in PdfFilesIn(dir) : g.ctime <= f.ctime}

\* lines 91-106: one turn of the waiting loop
Poll ==
    /\ step = "polling"
    /\ last.i < MaxPolls
    /\ IF PathExists(ws, last.expected_pdf_path)
       THEN /\ last' = [last EXCEPT !.found = TRUE]
            /\ step' = "found"
       ELSE IF PdfFilesIn(ws) # {}
       THEN \E latest_pdf \in LatestPdfs(ws) :
              IF last.now - latest_pdf.ctime < RecentSeconds
              THEN /\ last' = [last EXCEPT !.found = TRUE,
                                           !.expected_pdf_path = latest_pdf.name]
                   /\ step' = "found"
              ELSE /\ last' = [last EXCEPT !.i = @ + 1, !.now = @ + 1]
                   /\ step' = "polling"
       ELSE /\ last' = [last EXCEPT !.i = @ + 1, !.now = @ + 1]
            /\ step' = "polling"
    /\ UNCHANGED <<call, ws, rec, setup, mode, faas, unirrig, out>>

\* lines 127-128: the loop ran out
GiveUp ==
    /\ step = "polling"
    /\ last.i = MaxPolls
    /\ out' = Returns(out, FALSE, "PDF file was not created", call.pdf_path)
    /\ step' = "returned"
    /\ UNCHANGED <<call, ws, last, rec, setup, mode, faas, unirrig>>

\* os.remove(pdf_path)
RemoveFile(dir, name) == {f \in dir : f.name # name}

\* os.replace(src, dst)
ReplaceFile(dir, src, dst) ==
    {f \in dir : f.name \notin {src, dst}}
    \cup {[f EXCEPT !.name = dst] : f \in {g \in dir : g.name = src}}

\* lines 117-126: what is returned after the rename was tried
RelocateReturn(o, replace_ok, expected, pdf_path) ==
    Returns(o, TRUE, "", IF replace_ok THEN pdf_path ELSE expected)

\* lines 108-126: the found file is moved to the requested name
Relocate ==
    /\ step = "found"
    /\ IF last.expected_pdf_path # call.pdf_path
       THEN \E remove_ok \in BOOLEAN, replace_ok \in BOOLEAN :
              LET removed == IF PathExists(ws, call.pdf_path) /\ remove_ok
                             THEN RemoveFile(ws, call.pdf_path) ELSE ws
              IN  /\ ws' = IF replace_ok
                           THEN ReplaceFile(removed, last.expected_pdf_path, call.pdf_path)
                           ELSE removed
                  /\ out' = RelocateReturn(out, replace_ok, last.expected_pdf_path, call.pdf_path)
       ELSE /\ ws' = ws
            /\ out' = Returns(out, TRUE, "", call.pdf_path)
    /\ step' = "returned"
    /\ UNCHANGED <<call, last, rec, setup, mode, faas, unirrig>>

\* main, lines 160-184: the printed result and the exit code
PrintResult ==
    /\ step = "returned"
    /\ out' = IF out.success
              THEN [out EXCEPT !.printed = [success |-> TRUE, pdf_path |-> call.pdf_path],
                               !.exit_code = 0]
              ELSE [out EXCEPT !.printed = [success |-> FALSE, error |-> out.error],
                               !.exit_code = 1]
    /\ step' = "exit"
    /\ UNCHANGED <<call, ws, last, rec, setup, mode, faas, unirrig>>

NextPdf ==
    \/ ValidateInput \/ FindLibreoffice \/ RunConverter \/ ConverterWrites
    \/ Poll \/ GiveUp \/ Relocate \/ PrintResult

SpecPdf == InitPdf /\ [][NextPdf]_vars

\* the call has returned
ConvertReturned == step \in {"returned", "exit"} /\ out.returned

\* a PDF made by this conversion lies at the requested path
ConvertedAtRequestedPath ==
    \E f \in ws : f.name = call.pdf_path /\ f.made_by = "conversion"

ConvertFailures ==
    {"LibreOffice not found", "LibreOffice conversion failed",
     "PDF conversion timeout", "PDF conversion error", "PDF file was not created"}

\* C19: when convert_excel_to_pdf_libreoffice returns success, a PDF made by
\* this conversion lies at exactly the requested pdf_path (also when the
\* converter wrote it under another name, when the rename fails and when
\* another recent PDF lies in the output directory); otherwise it returns one
\* of its failures, and main prints success exactly when it was returned.
C19_PdfAtRequestedPath ==
    /\ ConvertReturned =>
         /\ out.success => ConvertedAtRequestedPath
         /\ ~out.success => out.error \in ConvertFailures
    /\ (step = "exit" /\ out.returned) =>
         /\ out.printed.success = out.success
         /\ out.exit_code = (IF out.success THEN 0 ELSE 1)
====
